---- MODULE Spec2Model ----
(***************************************************************************)
(* The matching subsystem of mixesdbsync: TrackMatcher.find_match, the     *)
(* four-strategy search cascade over the Spotify search collaborator, the  *)
(* per-strategy evaluation of the candidates (_evaluate_results) and the   *)
(* confidence classification (MatchConfidence.from_score); then            *)
(* SyncEngine.sync with match_tracks and create_playlist, the retry        *)
(* decorator of SpotifyClient.search_track, TrackNormalizer and            *)
(* TrackScorer on texts.                                                   *)
(*                                                                         *)
(* Units.  The program computes with floats.  Here the three sub-scores of *)
(* a candidate (artist, title, remix; 0.0 .. 100.0) are integers in tenths *)
(* of a point (0 .. 1000), the weights 0.30 / 0.40 / 0.30 are the integers *)
(* 3 / 4 / 3 (tenths), and every aggregate score, every threshold and      *)
(* min_score are integers in hundredths of a point (0 .. 10000):           *)
(* 95.0 is 9500.                                                           *)
(*                                                                         *)
(* Optional values (spotify_track: SpotifyTrack | None, best_result:       *)
(* MatchResult | None) are sequences of length at most one; << >> is None. *)
(***************************************************************************)
EXTENDS Integers, Sequences, FiniteSets, TLC

\* The longest candidate list the search collaborator returns in the model.
MaxCands == 6

VARIABLES
    min_score,              \* config.min_score (hundredths)
    include_low_confidence, \* config.include_low_confidence
    pc,                     \* position of find_match
    idx,                    \* index of the current strategy in strategies
    calls,                  \* the search calls the collaborator has received
    results,                \* the list the search returned, while the iteration runs
    result,                 \* the loop's result, while the iteration runs
    best_result,            \* find_match's best_result (or None)
    returned,               \* the MatchResult find_match returned (or None)
    tiers,                  \* history: the tier of each strategy's result
    max_score,              \* history: the highest score of a strategy's result
    any_candidates,         \* history: some search returned a candidate
    probe,                  \* inputs of a direct application of a function
    probe_out,              \* its outputs
    epc,                    \* position of SyncEngine.sync / match_tracks
    caller,                 \* "sync" or a direct call of "match_tracks"
    show_progress,          \* match_tracks' show_progress argument
    dry_run,                \* sync's dry_run argument
    update_existing,        \* config.sync.update_existing
    mix,                    \* the fetched Mix: tracks and whether image_url is set
    pos,                    \* loop position of match_tracks in mix.tracks
    match_results,          \* match_tracks' results list
    searches,               \* the search calls made: <<track position, strategy, raised>>
    advanced,               \* progress.advance calls
    ops,                    \* the playlist operations the Spotify client received
    sync_result,            \* the SyncResult sync returned (or None)
    attempt,                \* search_track: attempts made by the retry wrapper
    api,                    \* search_track: what the Web API did on each attempt
    outcome                 \* search_track: what the caller got (or None)

vars == <<min_score, include_low_confidence, pc, idx, calls, results, result,
          best_result, returned, tiers, max_score, any_candidates, probe,
          probe_out, epc, caller, show_progress, dry_run, update_existing,
          mix, pos, match_results, searches, advanced, ops, sync_result,
          attempt, api, outcome>>

config == <<min_score, include_low_confidence>>
probes == <<probe, probe_out>>
matcher == <<pc, idx, calls, results, result, best_result, returned, tiers,
             max_score, any_candidates>>
engine == <<epc, caller, show_progress, dry_run, update_existing, mix, pos,
            match_results, searches, advanced, ops, sync_result>>
retry == <<attempt, api, outcome>>

\* The variables of a part of the program that is not running.
MatcherIdle ==
    /\ idx = 1
    /\ calls = << >>
    /\ results = << >>
    /\ result = << >>
    /\ best_result = << >>
    /\ returned = << >>
    /\ tiers = << >>
    /\ max_score = -1
    /\ any_candidates = FALSE

ProbeIdle ==
    /\ probe = << >>
    /\ probe_out = << >>

EngineIdle ==
    /\ epc = "idle"
    /\ caller = "none"
    /\ show_progress = FALSE
    /\ dry_run = FALSE
    /\ update_existing = FALSE
    /\ mix = [tracks |-> << >>, image_url |-> FALSE]
    /\ pos = 0
    /\ match_results = << >>
    /\ searches = << >>
    /\ advanced = 0
    /\ ops = << >>
    /\ sync_result = << >>

RetryIdle ==
    /\ attempt = 0
    /\ api = << >>
    /\ outcome = << >>

----------------------------------------------------------------------------
(* Confidence classification                                               *)

ExactThreshold == 9500
HighThreshold == 9000
MediumThreshold == 8000

Confidences == {"EXACT", "HIGH", "MEDIUM", "LOW", "NO_MATCH"}

\* A plausible slip: the comment "EXACT  >95 score" taken literally.
from_score_strict(score) ==
    IF score > ExactThreshold THEN "EXACT"
    ELSE IF score >= HighThreshold THEN "HIGH"
    ELSE IF score >= MediumThreshold THEN "MEDIUM"
    ELSE "LOW"

from_score(score) ==
    IF score >= ExactThreshold THEN "EXACT"
    ELSE IF score >= HighThreshold THEN "HIGH"
    ELSE IF score >= MediumThreshold THEN "MEDIUM"
    ELSE "LOW"

----------------------------------------------------------------------------
(* Candidates and their score                                              *)

ArtistWeight == 3
TitleWeight == 4
RemixWeight == 3

\* The source track find_match is called with.
Track == "track"

\* A SpotifyTrack as the matcher sees it: its identity and the three
\* sub-scores the scorer computes for it against the source track.
Cand(u, a, t, r) == [uri |-> u, artist |-> a, title |-> t, remix |-> r]

\* The catalogue in the order the collaborator ranks it.  Aggregate scores:
\* 82.00, 0.00, 82.00, 70.00, 80.00, 97.00, 90.00, 95.00.
Catalog ==
    << Cand("sp1", 1000, 550, 1000),
       Cand("sp2", 0, 0, 0),
       Cand("sp3", 1000, 550, 1000),
       Cand("sp4", 1000, 1000, 0),
       Cand("sp5", 1000, 500, 1000),
       Cand("sp6", 1000, 925, 1000),
       Cand("sp7", 1000, 750, 1000),
       Cand("sp8", 1000, 875, 1000) >>

\* A plausible slip: the weights of ScorerWeights (artist 0.4, title 0.6).
score_match_two_weights(track, spotify_track) ==
    spotify_track.artist * 4 + spotify_track.title * 6

score_match(track, spotify_track) ==
    spotify_track.artist * ArtistWeight
    + spotify_track.title * TitleWeight
    + spotify_track.remix * RemixWeight

----------------------------------------------------------------------------
(* Python list helpers                                                     *)

Min(a, b) == IF a < b THEN a ELSE b
Max(a, b) == IF a > b THEN a ELSE b

\* s[a:b] of Python for 0 <= a <= b.
Slice(s, a, b) == SubSeq(s, a + 1, Min(b, Len(s)))

\* Insert the pair p into the descending list s after every pair whose score
\* is not smaller: list.sort(key=score, reverse=True) is stable.
RECURSIVE InsertDesc(_, _)
InsertDesc(p, s) ==
    IF s = << >> THEN <<p>>
    ELSE IF Head(s)[2] >= p[2] THEN <<Head(s)>> \o InsertDesc(p, Tail(s))
    ELSE <<p>> \o s

RECURSIVE SortDesc(_)
SortDesc(s) ==
    IF s = << >> THEN << >>
    ELSE InsertDesc(s[Len(s)], SortDesc(SubSeq(s, 1, Len(s) - 1)))

\* [(r, score_match(track, r)) for r in results]
Scored(track, rs) == [i \in 1..Len(rs) |-> <<rs[i], score_match(track, rs[i])>>]

\* [r for r, _ in scored]
Tracks(scored) == [i \in 1..Len(scored) |-> scored[i][1]]

----------------------------------------------------------------------------
(* MatchResult and _evaluate_results                                       *)

MatchResult(track, sp, conf, sc, name, alts) ==
    [mixesdb_track |-> track, spotify_track |-> sp, confidence |-> conf,
     score |-> sc, search_strategy |-> name, alternatives |-> alts]

matched(r) == r.spotify_track # << >> /\ r.confidence # "NO_MATCH"

\* A plausible slip: the tier of the placeholder classified from its score.
_no_match_low(track, strategy_name) ==
    MatchResult(track, << >>, from_score(0), 0, strategy_name, << >>)

_no_match(track, strategy_name) ==
    MatchResult(track, << >>, "NO_MATCH", 0, strategy_name, << >>)

AlternativesCap == 5

rejected_alternatives_six(scored) == Tracks(Slice(scored, 0, AlternativesCap + 1))

\* alternatives=[r for r, _ in scored[:5]]
rejected_alternatives(scored) == Tracks(Slice(scored, 0, AlternativesCap))

\* alternatives=[r for r, _ in scored[1:5]]
matched_alternatives(scored) == Tracks(Slice(scored, 1, AlternativesCap))

\* A plausible slip: the MEDIUM boundary used in place of the configured one.
below_threshold_medium(best_score) ==
    best_score < MediumThreshold /\ ~include_low_confidence

below_threshold_le(best_score) ==
    best_score <= min_score /\ ~include_low_confidence

\* if best_score < self.config.min_score: if not self.config.include_low_confidence:
below_threshold(best_score) ==
    best_score < min_score /\ ~include_low_confidence

\* A plausible slip: the tier taken from the first candidate as returned,
\* before the sort.
top_confidence_unsorted(track, rs, scored) ==
    from_score(score_match(track, rs[1]))

\* best_track, best_score = scored[0]; confidence = from_score(best_score)
top_confidence(track, rs, scored) == from_score(scored[1][2])

\* A plausible slip: the rejected top candidate left in spotify_track.
_evaluate_results_keep_track(track, rs, strategy_name) ==
    IF rs = << >> THEN _no_match(track, strategy_name)
    ELSE LET scored == SortDesc(Scored(track, rs))
             best_track == scored[1][1]
             best_score == scored[1][2]
             confidence == top_confidence(track, rs, scored)
         IN  IF below_threshold(best_score)
             THEN MatchResult(track, <<best_track>>, "NO_MATCH", best_score,
                              strategy_name, rejected_alternatives(scored))
             ELSE MatchResult(track, <<best_track>>, confidence, best_score,
                              strategy_name, matched_alternatives(scored))

_evaluate_results(track, rs, strategy_name) ==
    IF rs = << >> THEN _no_match(track, strategy_name)
    ELSE LET scored == SortDesc(Scored(track, rs))
             best_track == scored[1][1]
             best_score == scored[1][2]
             confidence == top_confidence(track, rs, scored)
         IN  IF below_threshold(best_score)
             THEN MatchResult(track, << >>, "NO_MATCH", best_score,
                              strategy_name, rejected_alternatives(scored))
             ELSE MatchResult(track, <<best_track>>, confidence, best_score,
                              strategy_name, matched_alternatives(scored))

----------------------------------------------------------------------------
(* The strategies                                                          *)

strategies_swapped == <<"exact", "artist_title", "normalized", "title_only">>

strategies == <<"exact", "normalized", "artist_title", "title_only">>

ExactLimit == 5
NormalizedLimit == 10
ArtistTitleLimit == 10
TitleOnlyLimit == 20
TitleOnlyKeep == 10

\* The limit= argument of each strategy's search call.
Limit(name) ==
    CASE name = "exact" -> ExactLimit
      [] name = "normalized" -> NormalizedLimit
      [] name = "artist_title" -> ArtistTitleLimit
      [] name = "title_only" -> TitleOnlyLimit

\* What one search call can return: n consecutive tracks of the catalogue
\* from some rank on, n at most the call's limit.
Responses(limit) ==
    { SubSeq(Catalog, w[1], w[1] + w[2] - 1) :
        w \in { v \in (1..Len(Catalog)) \X (0..Min(limit, MaxCands)) :
                   v[1] + v[2] - 1 <= Len(Catalog) } }

\* A plausible slip: the first ten as returned, without the re-rank.
title_only_kept_unsorted(track, rs) == Slice(rs, 0, TitleOnlyKeep)

\* scored_results.sort(...); results = [r for r, _ in scored_results[:10]]
title_only_kept(track, rs) ==
    Tracks(Slice(SortDesc(Scored(track, rs)), 0, TitleOnlyKeep))

\* The body of a strategy after its search call returned rs.
StrategyResult(track, name, rs) ==
    IF name = "title_only" /\ rs # << >>
    THEN _evaluate_results(track, title_only_kept(track, rs), name)
    ELSE _evaluate_results(track, rs, name)

----------------------------------------------------------------------------------------------------------------------------------------
(* find_match                                                              *)

MinScores == {0, 9000, 10000}

Init ==
    /\ min_score \in MinScores
    /\ include_low_confidence \in BOOLEAN
    /\ pc = "call"
    /\ idx = 1
    /\ calls = << >>
    /\ results = << >>
    /\ result = << >>
    /\ best_result = << >>
    /\ returned = << >>
    /\ tiers = << >>
    /\ max_score = -1
    /\ any_candidates = FALSE
    /\ probe = << >>
    /\ probe_out = << >>
    /\ EngineIdle
    /\ RetryIdle

\* results = self.spotify.search_track...(..., limit=...) returns a list.
Search ==
    /\ pc = "call"
    /\ \E rs \in Responses(Limit(strategies[idx])) :
           /\ results' = rs
           /\ any_candidates' = (any_candidates \/ rs # << >>)
    /\ calls' = Append(calls, strategies[idx])
    /\ pc' = "evaluate"
    /\ UNCHANGED <<config, idx, result, best_result, returned, tiers,
                   max_score, probes, engine, retry>>

\* The search call raises SpotifyError: nothing in find_match catches it.
SearchRaises ==
    /\ pc = "call"
    /\ calls' = Append(calls, strategies[idx])
    /\ pc' = "raised"
    /\ UNCHANGED <<config, idx, results, result, best_result, returned, tiers,
                   max_score, any_candidates, probes, engine, retry>>

\* result = strategy_func(track, strategy_name), after its search returned.
Evaluate ==
    /\ pc = "evaluate"
    /\ LET r == StrategyResult(Track, strategies[idx], results)
       IN  /\ result' = <<r>>
           /\ tiers' = Append(tiers, r.confidence)
           /\ max_score' = Max(max_score, r.score)
    /\ pc' = "decide"
    /\ UNCHANGED <<config, idx, calls, results, best_result, returned,
                   any_candidates, probes, engine, retry>>

high_confidence_exact_only(r) == r.confidence = "EXACT"

high_confidence_high_only(r) == r.confidence = "HIGH"

\* if result.confidence in (MatchConfidence.EXACT, MatchConfidence.HIGH)
high_confidence(r) == r.confidence \in {"EXACT", "HIGH"}

\* A plausible slip: a result with an equal score also replaces the best one.
better_or_equal(r, best) == best = << >> \/ r.score >= best[1].score

better_lower(r, best) == best = << >> \/ r.score < best[1].score

\* if best_result is None or result.score > best_result.score
better(r, best) == best = << >> \/ r.score > best[1].score

\* return result
ShortCircuit ==
    /\ pc = "decide"
    /\ high_confidence(result[1])
    /\ returned' = result
    /\ pc' = "returned"
    /\ UNCHANGED <<config, idx, calls, results, result, best_result, tiers,
                   max_score, any_candidates, probes, engine, retry>>

\* best_result = result when it is better; then the loop goes on or ends.
KeepBest ==
    /\ pc = "decide"
    /\ ~high_confidence(result[1])
    /\ best_result' = IF better(result[1], best_result) THEN result
                      ELSE best_result
    /\ IF idx < Len(strategies)
       THEN idx' = idx + 1 /\ pc' = "call"
       ELSE idx' = idx /\ pc' = "exhausted"
    /\ result' = << >>
    /\ results' = << >>
    /\ UNCHANGED <<config, calls, returned, tiers, max_score, any_candidates,
                   probes, engine, retry>>

\* A plausible slip: the placeholder returned whenever nothing matched.
ReturnBest_placeholder ==
    /\ pc = "exhausted"
    /\ returned' = IF best_result # << >> /\ matched(best_result[1])
                   THEN best_result
                   ELSE <<_no_match(Track, "none")>>
    /\ pc' = "returned"
    /\ UNCHANGED <<config, idx, calls, results, result, best_result, tiers,
                   max_score, any_candidates, probes, engine, retry>>

\* return best_result or self._no_match(track, "none")
ReturnBest ==
    /\ pc = "exhausted"
    /\ returned' = IF best_result # << >> THEN best_result
                   ELSE <<_no_match(Track, "none")>>
    /\ pc' = "returned"
    /\ UNCHANGED <<config, idx, calls, results, result, best_result, tiers,
                   max_score, any_candidates, probes, engine, retry>>

Next ==
    \/ Search
    \/ SearchRaises
    \/ Evaluate
    \/ ShortCircuit
    \/ KeepBest
    \/ ReturnBest

Spec == Init /\ [][Next]_vars

----------------------------------------------------------------------------
(* Properties of find_match                                                *)

CascadeOrder == <<"exact", "normalized", "artist_title", "title_only">>

HighTiers == {"EXACT", "HIGH"}

Range(s) == {s[i] : i \in 1..Len(s)}

\* The score of a candidate against the source track.
ScoreOf(c) == score_match(Track, c)

\* The highest score among the candidates of a non-empty list.
TopScore(rs) ==
    LET S == {ScoreOf(c) : c \in Range(rs)}
    IN  CHOOSE s \in S : \A t \in S : t <= s

\* The tier the thresholds 95 / 90 / 80 give a score (hundredths).
TierOf(s) ==
    IF s >= 9500 THEN "EXACT"
    ELSE IF s >= 9000 THEN "HIGH"
    ELSE IF s >= 8000 THEN "MEDIUM"
    ELSE "LOW"

TierRank(t) ==
    CASE t = "EXACT" -> 4
      [] t = "HIGH" -> 3
      [] t = "MEDIUM" -> 2
      [] t = "LOW" -> 1
      [] t = "NO_MATCH" -> 0

\* The MatchResults the matcher holds: the current strategy's, the best
\* remembered one and the returned one.
Produced == Range(result) \cup Range(best_result) \cup Range(returned)

\* A MatchResult that came from a non-empty candidate list.
FromCandidates(r) == r.spotify_track # << >> \/ r.alternatives # << >>

Descending(cs) ==
    \A i \in 1..(Len(cs) - 1) : ScoreOf(cs[i]) >= ScoreOf(cs[i + 1])

\* C1: once a strategy's evaluated result has tier EXACT or HIGH, the next
\* step of find_match returns exactly that result without another search
\* call, and no search call is issued after find_match has returned.
C1_ShortCircuitReturns ==
    [][ /\ (pc = "decide" /\ result[1].confidence \in HighTiers)
            => (pc' = "returned" /\ returned' = result /\ calls' = calls)
        /\ (pc = "returned" => calls' = calls) ]_vars

C1_Witness ==
    /\ pc = "returned"
    /\ calls = <<"exact", "normalized">>
    /\ tiers = <<"NO_MATCH", "HIGH">>
    /\ returned = result
    /\ returned[1].search_strategy = "normalized"

\* C2 as stated: under every configuration, when the top candidate of the
\* exact strategy scores >= 95, find_match returns after that one search call.
C2_Original ==
    [][ /\ (pc = "decide" /\ idx = 1 /\ results # << >>
            /\ TopScore(results) >= 9500)
            => (pc' = "returned" /\ calls' = <<"exact">>)
        /\ (pc = "returned" => calls' = calls) ]_vars

\* C2 amended: when the top candidate of the exact strategy scores >= 95 and
\* is accepted (its score is not below min_score, or include_low_confidence
\* is set), find_match returns after that one search call: no normalized,
\* artist_title or title_only search is issued.
C2_AcceptedExactShortCircuits ==
    [][ /\ (pc = "decide" /\ idx = 1 /\ results # << >>
            /\ TopScore(results) >= 9500
            /\ (TopScore(results) >= min_score \/ include_low_confidence))
            => (pc' = "returned" /\ calls' = <<"exact">>)
        /\ (pc = "returned" => calls' = calls) ]_vars

C2_Witness ==
    /\ pc = "returned"
    /\ calls = <<"exact">>
    /\ results # << >>
    /\ TopScore(results) >= 9500
    /\ min_score = 10000
    /\ include_low_confidence
    /\ returned[1].spotify_track # << >>

\* C3: the search calls of one track are a prefix of exact, normalized,
\* artist_title, title_only (one call per strategy, at most 4); a call is
\* issued only when every earlier strategy's result has been evaluated;
\* strategy k+1 is searched only if the results of strategies 1..k all have a
\* tier other than EXACT and HIGH, and when find_match ends it has been
\* searched if they all have; an empty candidate list gives such a result.
C3_CascadeOrder ==
    /\ Len(calls) <= 4
    /\ calls = SubSeq(CascadeOrder, 1, Len(calls))
    /\ Len(tiers) <= Len(calls)
    /\ Len(calls) <= Len(tiers) + 1
    /\ (pc = "decide" /\ results = << >>) => tiers[Len(tiers)] = "NO_MATCH"
    /\ \A k \in 1..3 :
          LET allLow == /\ Len(tiers) >= k
                        /\ \A j \in 1..k : tiers[j] \notin HighTiers
          IN  /\ Len(calls) >= k + 1 => allLow
              /\ (pc \in {"returned", "raised"} /\ allLow) => Len(calls) >= k + 1

C3_Witness ==
    /\ pc = "returned"
    /\ include_low_confidence
    /\ calls = <<"exact", "normalized", "artist_title">>
    /\ tiers = <<"NO_MATCH", "MEDIUM", "EXACT">>

\* C4: when no strategy short-circuits, the returned result is the
\* remembered per-strategy result (the remembered result only ever changes
\* to the result just evaluated), it carries the name and tier of one of the
\* four strategies' results, and its score is at least every strategy's
\* result's score.
C4_BestByScore ==
    /\ [](( /\ pc = "returned"
            /\ \A j \in 1..Len(tiers) : tiers[j] \notin HighTiers )
          => /\ Len(tiers) = 4
             /\ returned = best_result
             /\ returned[1].score >= max_score
             /\ \E k \in 1..4 :
                   /\ returned[1].search_strategy = CascadeOrder[k]
                   /\ returned[1].confidence = tiers[k])
    /\ [][best_result' # best_result => best_result' = result]_vars

C4_Witness ==
    /\ pc = "returned"
    /\ Len(tiers) = 4
    /\ \A j \in 1..4 : tiers[j] \notin HighTiers
    /\ returned[1].search_strategy = "artist_title"
    /\ returned[1].spotify_track # << >>
    /\ returned[1].score = max_score
    /\ max_score > 0

\* C5: a strategy's result is NO_MATCH without a matched candidate exactly
\* when the candidate list is empty, or the top score is strictly below
\* min_score and include_low_confidence is false; below the threshold the
\* result keeps the top score; otherwise a top-scoring candidate is the
\* matched one, with the tier of the top score and that score.
C5_AcceptanceRule ==
    pc = "decide" =>
        LET r == result[1]
            empty == results = << >>
            below == /\ results # << >>
                     /\ TopScore(results) < min_score
                     /\ ~include_low_confidence
        IN  /\ (r.confidence = "NO_MATCH" /\ r.spotify_track = << >>)
                   <=> (empty \/ below)
            /\ below => r.score = TopScore(results)
            /\ ~(empty \/ below) =>
                   /\ Len(r.spotify_track) = 1
                   /\ r.spotify_track[1] \in Range(results)
                   /\ ScoreOf(r.spotify_track[1]) = TopScore(results)
                   /\ r.confidence = TierOf(TopScore(results))
                   /\ r.score = TopScore(results)

C5_Witness ==
    /\ pc = "decide"
    /\ min_score = 9000
    /\ ~include_low_confidence
    /\ result[1].confidence = "NO_MATCH"
    /\ result[1].spotify_track = << >>
    /\ result[1].score = 8200

\* C6: no result carries more than 5 alternates.  The alternates of a
\* strategy's result are candidates of its list in descending score order,
\* none scoring below a candidate left out; a below-threshold NO_MATCH result
\* carries the min(5, n) best including the rejected top candidate; a matched
\* result carries min(4, n - 1) of them, none scoring above the matched
\* candidate and never the matched candidate; an empty list gives none.
C6_Alternates ==
    /\ \A r \in Produced : Len(r.alternatives) <= 5
    /\ pc = "decide" =>
        LET r == result[1]
            n == Len(results)
            alts == r.alternatives
            rest == (Range(results) \ Range(alts)) \ Range(r.spotify_track)
        IN  /\ Descending(alts)
            /\ Range(alts) \subseteq Range(results)
            /\ Cardinality(Range(alts)) = Len(alts)
            /\ \A c \in rest : \A a \in Range(alts) : ScoreOf(c) <= ScoreOf(a)
            /\ n = 0 => alts = << >>
            /\ (n > 0 /\ r.confidence = "NO_MATCH") =>
                   /\ Len(alts) = (IF n < 5 THEN n ELSE 5)
                   /\ alts # << >>
                   /\ ScoreOf(alts[1]) = TopScore(results)
            /\ r.spotify_track # << >> =>
                   /\ Len(alts) = (IF n - 1 < 4 THEN n - 1 ELSE 4)
                   /\ r.spotify_track[1] \notin Range(alts)
                   /\ \A a \in Range(alts) : ScoreOf(a) <= r.score

C6_Witness ==
    /\ pc = "decide"
    /\ Len(results) = 6
    /\ result[1].confidence = "NO_MATCH"
    /\ Len(result[1].alternatives) = 5
    /\ ScoreOf(result[1].alternatives[1]) = 9700

\* C7: in every MatchResult of find_match the matched candidate is absent
\* exactly when the tier is NO_MATCH, so matched is true exactly when a
\* candidate is present; a NO_MATCH result of a non-empty candidate list
\* occurs only when the top score is below min_score and
\* include_low_confidence is false.
C7_AbsentIffNoMatch ==
    /\ \A r \in Produced :
          /\ (r.spotify_track = << >>) <=> (r.confidence = "NO_MATCH")
          /\ matched(r) <=> (r.spotify_track # << >>)
    /\ (pc = "decide" /\ results # << >> /\ result[1].confidence = "NO_MATCH")
           => (TopScore(results) < min_score /\ ~include_low_confidence)

C7_Witness ==
    /\ pc = "returned"
    /\ returned[1].confidence = "NO_MATCH"
    /\ returned[1].spotify_track = << >>
    /\ returned[1].alternatives # << >>
    /\ ~matched(returned[1])

\* C8 as stated: under one configuration, any two MatchResults of the
\* matcher with the same score have the same tier.
C8_Original ==
    \A r1 \in Produced : \A r2 \in Produced :
        r1.score = r2.score => r1.confidence = r2.confidence

\* C8 amended: under one configuration, any two MatchResults that came from
\* a non-empty candidate list and have the same score have the same tier
\* (the no-candidates result, NO_MATCH with score 0.0, is excepted: an
\* accepted candidate scoring 0.0 has tier LOW).
C8_TierByScoreOfCandidates ==
    \A r1 \in Produced : \A r2 \in Produced :
        (FromCandidates(r1) /\ FromCandidates(r2) /\ r1.score = r2.score)
            => r1.confidence = r2.confidence

C8_Witness ==
    /\ pc = "decide"
    /\ best_result # << >>
    /\ best_result # result
    /\ FromCandidates(result[1])
    /\ FromCandidates(best_result[1])
    /\ result[1].score = best_result[1].score
    /\ result[1].confidence = "MEDIUM"
    /\ best_result[1].confidence = "MEDIUM"

\* C10: when all four strategies got an empty candidate list, find_match
\* returns a result with no matched candidate, tier NO_MATCH, score 0.0 and
\* no alternates, under every configuration.
C10_NoCandidates ==
    (pc = "returned" /\ Len(calls) = 4 /\ ~any_candidates) =>
        /\ returned[1].spotify_track = << >>
        /\ returned[1].confidence = "NO_MATCH"
        /\ returned[1].score = 0
        /\ returned[1].alternatives = << >>

C10_Witness ==
    /\ pc = "returned"
    /\ Len(tiers) = 4
    /\ ~any_candidates
    /\ include_low_confidence
    /\ min_score = 0

----------------------------------------------------------------------------
(* MatchConfidence.from_score applied directly to a pair of scores         *)

\* The largest score from_score is applied to (hundredths): past 100.00.
MaxProbe == 10100

ProbeSecond ==
    {0, MediumThreshold - 1, MediumThreshold, HighThreshold - 1, HighThreshold,
     ExactThreshold - 1, ExactThreshold, MaxProbe}

InitClassify ==
    /\ min_score = HighThreshold
    /\ include_low_confidence = FALSE
    /\ pc = "classify"
    /\ idx = 1
    /\ calls = << >>
    /\ results = << >>
    /\ result = << >>
    /\ best_result = << >>
    /\ returned = << >>
    /\ tiers = << >>
    /\ max_score = -1
    /\ any_candidates = FALSE
    /\ probe \in (0..MaxProbe) \X ProbeSecond
    /\ probe_out = << >>
    /\ EngineIdle
    /\ RetryIdle

Classify ==
    /\ pc = "classify"
    /\ probe_out' = <<from_score(probe[1]), from_score(probe[2])>>
    /\ pc' = "classified"
    /\ UNCHANGED <<config, idx, calls, results, result, best_result, returned,
                   tiers, max_score, any_candidates, probe, engine, retry>>

NextClassify == Classify

SpecClassify == InitClassify /\ [][NextClassify]_vars

----------------------------------------------------------------------------
(* SyncEngine: sync, match_tracks and create_playlist                      *)

\* The longest mix of the model.
MaxTracks == 2

AllTracks == <<"track", "track_2", "track_3", "track_4">>

Mixes ==
    { [tracks |-> SubSeq(AllTracks, 1, n), image_url |-> img] :
        n \in 0..Min(MaxTracks, Len(AllTracks)), img \in BOOLEAN }

\* What one search call does in a run of the engine: it raises a fatal
\* SpotifyError, or returns no candidate, an EXACT-scoring one or a
\* MEDIUM-scoring one.
SearchOutcomes ==
    { [raises |-> TRUE, rs |-> << >>] } \cup
    { [raises |-> FALSE, rs |-> rs] :
        rs \in { << >>, <<Catalog[6]>>, <<Catalog[1]>> } }

Scripts == [1..Len(strategies) -> SearchOutcomes]

FindMatchReturn(r, n) == [raised |-> FALSE, result |-> r, searched |-> n]

\* A plausible slip: the failure of a search taken for an empty result list.
RECURSIVE cascade_degrading(_, _, _, _)
cascade_degrading(track, script, i, best) ==
    IF i > Len(strategies)
    THEN FindMatchReturn(IF best # << >> THEN best
                         ELSE <<_no_match(track, "none")>>, i - 1)
    ELSE LET r == StrategyResult(track, strategies[i],
                                 IF script[i].raises THEN << >> ELSE script[i].rs)
         IN  IF high_confidence(r) THEN FindMatchReturn(<<r>>, i)
             ELSE cascade_degrading(track, script, i + 1,
                                    IF better(r, best) THEN <<r>> ELSE best)

\* The loop of find_match from strategy i on, best_result being best, when
\* the i-th search call does script[i]: the value is what find_match does
\* (returns a result or lets the exception through) and how many searches
\* it made.
RECURSIVE cascade(_, _, _, _)
cascade(track, script, i, best) ==
    IF i > Len(strategies)
    THEN FindMatchReturn(IF best # << >> THEN best
                         ELSE <<_no_match(track, "none")>>, i - 1)
    ELSE IF script[i].raises
    THEN [raised |-> TRUE, result |-> << >>, searched |-> i]
    ELSE LET r == StrategyResult(track, strategies[i], script[i].rs)
         IN  IF high_confidence(r) THEN FindMatchReturn(<<r>>, i)
             ELSE cascade(track, script, i + 1,
                          IF better(r, best) THEN <<r>> ELSE best)

\* The search calls of one find_match, as entries of searches: the position
\* of the track, the strategy, and whether the call raised.
SearchLog(p, script, n) == [k \in 1..n |-> <<p, strategies[k], script[k].raises>>]

\* A plausible slip: find_match wrapping each search in try/except.
find_match_degrading(track, script) == cascade_degrading(track, script, 1, << >>)

find_match(track, script) == cascade(track, script, 1, << >>)

SyncResult(m, u, p, e) ==
    [matched_tracks |-> m, unmatched_tracks |-> u, playlist |-> p, error |-> e]

unmatched(r) == ~matched(r)

PlaylistOp(name, id, uris) == [op |-> name, playlist |-> id, uris |-> uris]

RECURSIVE track_uris(_)
track_uris(rs) ==
    IF rs = << >> THEN << >>
    ELSE (IF Head(rs).spotify_track # << >>
          THEN <<Head(rs).spotify_track[1].uri>> ELSE << >>)
         \o track_uris(Tail(rs))

\* batch_size = 100
BatchSize == 100

\* [track_uris[i : i + batch_size] for i in range(0, len(track_uris), batch_size)]
RECURSIVE batches(_)
batches(uris) ==
    IF uris = << >> THEN << >>
    ELSE <<SubSeq(uris, 1, Min(BatchSize, Len(uris)))>>
         \o batches(SubSeq(uris, Min(BatchSize, Len(uris)) + 1, Len(uris)))

\* The whole list handed over in one call.
add_tracks_to_playlist_unbatched(playlist_id, uris) ==
    IF uris = << >> THEN << >>
    ELSE <<PlaylistOp("playlist_add_items", playlist_id, uris)>>

\* The Web API calls of add_tracks_to_playlist: one per batch.
add_tracks_to_playlist(playlist_id, uris) ==
    [k \in DOMAIN batches(uris) |->
        PlaylistOp("playlist_add_items", playlist_id, batches(uris)[k])]

\* A plausible slip: the new playlist created although one was found.
PlaylistOps_always_create(matched_results, found) ==
    (IF update_existing
     THEN <<PlaylistOp("find_existing_playlist",
                       IF found THEN "existing" ELSE "", << >>)>>
     ELSE << >>)
    \o (IF update_existing /\ found
        THEN <<PlaylistOp("clear_playlist", "existing", << >>)>>
        ELSE << >>)
    \o <<PlaylistOp("create_playlist", "new", << >>)>>
    \o (IF track_uris(matched_results) # << >>
        THEN add_tracks_to_playlist("new", track_uris(matched_results))
        ELSE << >>)

\* The calls create_playlist makes on the Spotify client, in order, when a
\* playlist of that name exists (found) or not; the entry of
\* find_existing_playlist holds the playlist it returned ("" for None).
PlaylistOps(matched_results, found) ==
    (IF update_existing
     THEN <<PlaylistOp("find_existing_playlist",
                       IF found THEN "existing" ELSE "", << >>)>>
     ELSE << >>)
    \o (IF update_existing /\ found
        THEN <<PlaylistOp("clear_playlist", "existing", << >>)>>
        ELSE <<PlaylistOp("create_playlist", "new", << >>)>>)
    \o (IF track_uris(matched_results) # << >>
        THEN add_tracks_to_playlist(
                 IF update_existing /\ found THEN "existing" ELSE "new",
                 track_uris(matched_results))
        ELSE << >>)

CoverOp(found) ==
    IF mix.image_url
    THEN <<PlaylistOp("set_playlist_cover_image",
                      IF update_existing /\ found THEN "existing" ELSE "new",
                      << >>)>>
    ELSE << >>

SyncMinScores == {HighThreshold}

\* The lengths of the uri lists of direct calls of add_tracks_to_playlist.
UriCounts == {0, 1, 99, 100, 101, 199, 200, 201, 250}

\* The uri list of a direct call: n distinct uris, numbered.
NumberedUris(n) == [i \in 1..n |-> i]

InitSync ==
    /\ min_score \in SyncMinScores
    /\ include_low_confidence \in BOOLEAN
    /\ pc = "idle"
    /\ MatcherIdle
    /\ RetryIdle
    /\ caller \in {"sync", "match_tracks", "add_tracks_to_playlist"}
    /\ probe \in (IF caller = "add_tracks_to_playlist"
                  THEN {<<NumberedUris(n)>> : n \in UriCounts} ELSE {<< >>})
    /\ probe_out = << >>
    /\ show_progress \in (IF caller = "match_tracks" THEN BOOLEAN ELSE {caller = "sync"})
    /\ dry_run \in (IF caller = "sync" THEN BOOLEAN ELSE {FALSE})
    /\ update_existing \in (IF caller = "sync" THEN BOOLEAN ELSE {FALSE})
    /\ epc = (IF caller = "sync" THEN "fetch"
              ELSE IF caller = "match_tracks" THEN "match" ELSE "add")
    /\ mix \in (IF caller = "match_tracks" THEN Mixes
                ELSE {[tracks |-> << >>, image_url |-> FALSE]})
    /\ pos = 0
    /\ match_results = << >>
    /\ searches = << >>
    /\ advanced = 0
    /\ ops = << >>
    /\ sync_result = << >>

\* mix = self.fetch_mix(url)
FetchMix ==
    /\ epc = "fetch"
    /\ mix' \in Mixes
    /\ epc' = "match"
    /\ UNCHANGED <<config, pc, matcher, probes, retry, caller, show_progress,
                   dry_run, update_existing, pos, match_results, searches,
                   advanced, ops, sync_result>>

\* except Exception as e: return SyncResult(..., error="Failed to fetch mix")
FetchFails ==
    /\ epc = "fetch"
    /\ sync_result' = <<SyncResult(<< >>, << >>, << >>, "Failed to fetch mix")>>
    /\ epc' = "done"
    /\ UNCHANGED <<config, pc, matcher, probes, retry, caller, show_progress,
                   dry_run, update_existing, mix, pos, match_results, searches,
                   advanced, ops>>

\* A plausible slip: results.insert(0, result).
MatchTrack_prepend ==
    /\ epc = "match"
    /\ pos < Len(mix.tracks)
    /\ \E script \in Scripts :
           LET o == find_match(mix.tracks[pos + 1], script)
           IN  /\ ~o.raised
               /\ match_results' = <<o.result[1]>> \o match_results
               /\ searches' = searches \o SearchLog(pos + 1, script, o.searched)
    /\ pos' = pos + 1
    /\ advanced' = (IF show_progress THEN advanced + 1 ELSE advanced)
    /\ UNCHANGED <<config, pc, matcher, probes, retry, epc, caller,
                   show_progress, dry_run, update_existing, mix, ops,
                   sync_result>>

\* One iteration of either loop of match_tracks:
\* result = self.matcher.find_match(track); results.append(result)
\* (and progress.advance(task) in the loop under the progress display).
MatchTrack ==
    /\ epc = "match"
    /\ pos < Len(mix.tracks)
    /\ \E script \in Scripts :
           LET o == find_match(mix.tracks[pos + 1], script)
           IN  /\ ~o.raised
               /\ match_results' = Append(match_results, o.result[1])
               /\ searches' = searches \o SearchLog(pos + 1, script, o.searched)
    /\ pos' = pos + 1
    /\ advanced' = (IF show_progress THEN advanced + 1 ELSE advanced)
    /\ UNCHANGED <<config, pc, matcher, probes, retry, epc, caller,
                   show_progress, dry_run, update_existing, mix, ops,
                   sync_result>>

\* A plausible slip: the loop of match_tracks catching the error and going on
\* with a placeholder.
MatchTrackRaises_continue ==
    /\ epc = "match"
    /\ pos < Len(mix.tracks)
    /\ \E script \in Scripts :
           LET o == find_match(mix.tracks[pos + 1], script)
           IN  /\ o.raised
               /\ searches' = searches \o SearchLog(pos + 1, script, o.searched)
    /\ match_results' = Append(match_results, _no_match(mix.tracks[pos + 1], "none"))
    /\ pos' = pos + 1
    /\ UNCHANGED <<config, pc, matcher, probes, retry, epc, caller,
                   show_progress, dry_run, update_existing, mix, advanced,
                   ops, sync_result>>

\* find_match lets a SpotifyError through: match_tracks has no handler, and
\* sync calls match_tracks outside its try blocks.
MatchTrackRaises ==
    /\ epc = "match"
    /\ pos < Len(mix.tracks)
    /\ \E script \in Scripts :
           LET o == find_match(mix.tracks[pos + 1], script)
           IN  /\ o.raised
               /\ searches' = searches \o SearchLog(pos + 1, script, o.searched)
    /\ epc' = "raised"
    /\ UNCHANGED <<config, pc, matcher, probes, retry, caller, show_progress,
                   dry_run, update_existing, mix, pos, match_results, advanced,
                   ops, sync_result>>

\* return results, to a direct caller of match_tracks.
ReturnResults ==
    /\ epc = "match"
    /\ pos = Len(mix.tracks)
    /\ caller = "match_tracks"
    /\ epc' = "done"
    /\ UNCHANGED <<config, pc, matcher, probes, retry, caller, show_progress,
                   dry_run, update_existing, mix, pos, match_results, searches,
                   advanced, ops, sync_result>>

\* A plausible slip: the dry_run test placed after the playlist was created.
DryRun_after_create ==
    /\ epc = "match"
    /\ pos = Len(mix.tracks)
    /\ caller = "sync"
    /\ dry_run
    /\ ops' = ops \o PlaylistOps(SelectSeq(match_results, matched), FALSE)
    /\ sync_result' = <<SyncResult(SelectSeq(match_results, matched),
                                   SelectSeq(match_results, unmatched),
                                   << >>, "")>>
    /\ epc' = "done"
    /\ UNCHANGED <<config, pc, matcher, probes, retry, caller, show_progress,
                   dry_run, update_existing, mix, pos, match_results, searches,
                   advanced>>

\* if dry_run: return SyncResult(..., playlist=None)
DryRun ==
    /\ epc = "match"
    /\ pos = Len(mix.tracks)
    /\ caller = "sync"
    /\ dry_run
    /\ sync_result' = <<SyncResult(SelectSeq(match_results, matched),
                                   SelectSeq(match_results, unmatched),
                                   << >>, "")>>
    /\ epc' = "done"
    /\ UNCHANGED <<config, pc, matcher, probes, retry, caller, show_progress,
                   dry_run, update_existing, mix, pos, match_results, searches,
                   advanced, ops>>

\* if matched: ... else: playlist = None
NothingMatched ==
    /\ epc = "match"
    /\ pos = Len(mix.tracks)
    /\ caller = "sync"
    /\ ~dry_run
    /\ SelectSeq(match_results, matched) = << >>
    /\ sync_result' = <<SyncResult(<< >>, SelectSeq(match_results, unmatched),
                                   << >>, "")>>
    /\ epc' = "done"
    /\ UNCHANGED <<config, pc, matcher, probes, retry, caller, show_progress,
                   dry_run, update_existing, mix, pos, match_results, searches,
                   advanced, ops>>

\* playlist = self.create_playlist(mix, matched, playlist_name, public)
CreatePlaylist ==
    /\ epc = "match"
    /\ pos = Len(mix.tracks)
    /\ caller = "sync"
    /\ ~dry_run
    /\ SelectSeq(match_results, matched) # << >>
    /\ \E found \in BOOLEAN :
           /\ ops' = ops \o PlaylistOps(SelectSeq(match_results, matched), found)
                         \o CoverOp(found)
           /\ sync_result' =
                  <<SyncResult(SelectSeq(match_results, matched),
                               SelectSeq(match_results, unmatched),
                               <<IF update_existing /\ found THEN "existing"
                                 ELSE "new">>, "")>>
    /\ epc' = "done"
    /\ UNCHANGED <<config, pc, matcher, probes, retry, caller, show_progress,
                   dry_run, update_existing, mix, pos, match_results, searches,
                   advanced>>

\* except Exception as e: return SyncResult(..., error="Failed to create
\* playlist"): the n-th call on the client raised.
CreatePlaylistFails ==
    /\ epc = "match"
    /\ pos = Len(mix.tracks)
    /\ caller = "sync"
    /\ ~dry_run
    /\ SelectSeq(match_results, matched) # << >>
    /\ \E found \in BOOLEAN :
           \E n \in 1..Len(PlaylistOps(SelectSeq(match_results, matched), found)) :
               ops' = ops \o SubSeq(PlaylistOps(SelectSeq(match_results, matched),
                                                found), 1, n)
    /\ sync_result' = <<SyncResult(SelectSeq(match_results, matched),
                                   SelectSeq(match_results, unmatched),
                                   << >>, "Failed to create playlist")>>
    /\ epc' = "done"
    /\ UNCHANGED <<config, pc, matcher, probes, retry, caller, show_progress,
                   dry_run, update_existing, mix, pos, match_results, searches,
                   advanced>>

\* add_tracks_to_playlist(playlist_id, track_uris), called directly.
AddTracks ==
    /\ epc = "add"
    /\ ops' = ops \o add_tracks_to_playlist("new", probe[1])
    /\ epc' = "done"
    /\ UNCHANGED <<config, pc, matcher, probes, retry, caller, show_progress,
                   dry_run, update_existing, mix, pos, match_results, searches,
                   advanced, sync_result>>

\* The n-th playlist_add_items call raises: the batches before it were added.
AddTracksFails ==
    /\ epc = "add"
    /\ \E n \in DOMAIN add_tracks_to_playlist("new", probe[1]) :
           ops' = ops \o SubSeq(add_tracks_to_playlist("new", probe[1]), 1, n)
    /\ epc' = "add_failed"
    /\ UNCHANGED <<config, pc, matcher, probes, retry, caller, show_progress,
                   dry_run, update_existing, mix, pos, match_results, searches,
                   advanced, sync_result>>

NextSync ==
    \/ AddTracks
    \/ AddTracksFails
    \/ FetchMix
    \/ FetchFails
    \/ MatchTrack
    \/ MatchTrackRaises
    \/ ReturnResults
    \/ DryRun
    \/ NothingMatched
    \/ CreatePlaylist
    \/ CreatePlaylistFails

SpecSync == InitSync /\ [][NextSync]_vars

----------------------------------------------------------------------------
(* Claims about fatal search errors and match_tracks                       *)

AnyRaised == \E k \in DOMAIN searches : searches[k][3]

InSourceOrder(rs) ==
    /\ Len(rs) <= Len(mix.tracks)
    /\ \A k \in DOMAIN rs : rs[k].mixesdb_track = mix.tracks[k]

\* C11: once a search call has raised a fatal error, find_match, match_tracks
\* and sync have let it through: the raising search is the last search ever
\* made (no later strategy, no later track), the track being matched has no
\* MatchResult (in particular no NO_MATCH one), only the tracks before it
\* have one, no playlist operation was performed, sync returned no
\* SyncResult, and nothing happens afterwards.
C11_FatalErrorPropagates ==
    /\ [](AnyRaised =>
            /\ epc = "raised"
            /\ searches[Len(searches)][3]
            /\ \A k \in 1..(Len(searches) - 1) : ~searches[k][3]
            /\ searches[Len(searches)][1] = pos + 1
            /\ Len(match_results) = pos
            /\ InSourceOrder(match_results)
            /\ \A k \in DOMAIN match_results :
                   match_results[k].mixesdb_track # mix.tracks[pos + 1]
            /\ ops = << >>
            /\ sync_result = << >>)
    /\ [][epc # "raised"]_vars

C11_Witness ==
    /\ epc = "raised"
    /\ caller = "sync"
    /\ ~dry_run
    /\ pos = 1
    /\ matched(match_results[1])
    /\ Len(searches) >= 3
    /\ searches[Len(searches)] = <<2, "normalized", TRUE>>

\* C12 as stated: after a search call raised, the run goes on (the attempt
\* counts as an empty result list and the mix is not aborted).
C12_Original == AnyRaised => epc \in {"match", "done"}

\* C12: a search call that raises is not taken for an empty result list: the
\* step in which it raises appends no MatchResult, searches no later
\* strategy, leaves the loop position where it was and aborts match_tracks;
\* the tracks from that position on are never matched.
C12_RaiseAbortsMix ==
    /\ [][(Len(searches') > Len(searches) /\ searches'[Len(searches')][3]) =>
            /\ epc' = "raised"
            /\ match_results' = match_results
            /\ pos' = pos
            /\ \A k \in (Len(searches) + 1)..(Len(searches') - 1) :
                   /\ ~searches'[k][3]
                   /\ searches'[k][1] = pos + 1
            /\ searches'[Len(searches')][1] = pos + 1
            /\ Len(searches') - Len(searches) <= Len(CascadeOrder)]_vars
    /\ [](epc = "raised" => Len(match_results) < Len(mix.tracks))

C12_Witness ==
    /\ epc = "raised"
    /\ caller = "match_tracks"
    /\ Len(mix.tracks) = 2
    /\ pos = 0
    /\ match_results = << >>
    /\ searches = <<<<1, "exact", FALSE>>, <<1, "normalized", TRUE>>>>

MatchTracksReturned ==
    /\ epc = "done"
    /\ sync_result # << >> => sync_result[1].error # "Failed to fetch mix"

\* C13: when no search call raises, match_tracks returns exactly one
\* MatchResult per track of the mix, the i-th for mix.tracks[i]; while it
\* runs it has one result per track processed; the searches are made track
\* after track, each track's searches following the cascade order from its
\* first strategy; with the progress display the display advanced once per
\* track, without it never.
C13_OneResultPerTrackInOrder ==
    ~AnyRaised =>
        /\ Len(match_results) = pos
        /\ InSourceOrder(match_results)
        /\ MatchTracksReturned => Len(match_results) = Len(mix.tracks)
        /\ \A j, k \in DOMAIN searches :
               j < k => searches[j][1] <= searches[k][1]
        /\ \A k \in DOMAIN searches :
               /\ searches[k][1] \in 1..pos
               /\ searches[k][2] =
                      CascadeOrder[Cardinality({j \in 1..k :
                                       searches[j][1] = searches[k][1]})]
        /\ \A p \in 1..pos : \E k \in DOMAIN searches : searches[k][1] = p
        /\ advanced = (IF show_progress THEN pos ELSE 0)

C13_Witness ==
    /\ epc = "done"
    /\ caller = "match_tracks"
    /\ ~show_progress
    /\ Len(mix.tracks) = 2
    /\ Len(match_results) = 2
    /\ match_results[1].mixesdb_track = "track"
    /\ match_results[2].mixesdb_track = "track_2"
    /\ matched(match_results[1])
    /\ ~matched(match_results[2])
    /\ Len(searches) = 6

----------------------------------------------------------------------------
(* SpotifyClient.search_track under its retry decorator                    *)

\* stop=stop_after_attempt(5)
StopAfterAttempt == 5

\* The HTTP statuses the Web API answers a search with in the model.
OkStatus == 200
RateLimitStatus == 429
FailureStatuses == {401, 429, 500}

SearchLimits == {ExactLimit, NormalizedLimit, TitleOnlyLimit}

ApiResponse(status, items) == [status |-> status, items |-> items]

\* except spotipy.SpotifyException as e: the exception search_track raises.
RaisedFor(status) ==
    IF status = RateLimitStatus THEN "SpotifyRateLimitError" ELSE "SpotifyError"

\* A plausible slip: retry_if_exception_type(SpotifyError).
retry_if_any_error(exc) == exc \in {"SpotifyRateLimitError", "SpotifyError"}

\* retry=retry_if_exception_type(SpotifyRateLimitError)
retry_if(exc) == exc = "SpotifyRateLimitError"

Outcome(kind, tracks) == [kind |-> kind, tracks |-> tracks]

InitSearch ==
    /\ min_score = HighThreshold
    /\ include_low_confidence = FALSE
    /\ pc = "attempt"
    /\ MatcherIdle
    /\ EngineIdle
    /\ probe \in { <<l>> : l \in SearchLimits }
    /\ probe_out = << >>
    /\ RetryIdle

\* An attempt whose API call succeeds: the candidates are returned.
AttemptReturns ==
    /\ pc = "attempt"
    /\ attempt' = attempt + 1
    /\ \E rs \in Responses(probe[1]) :
           /\ api' = Append(api, ApiResponse(OkStatus, rs))
           /\ outcome' = <<Outcome("return", rs)>>
    /\ pc' = "done"
    /\ UNCHANGED <<config, idx, calls, results, result, best_result, returned,
                   tiers, max_score, any_candidates, probes, engine>>

\* An attempt whose API call fails: search_track raises, and the decorator
\* re-raises what is not to be retried, gives up with RetryError at the last
\* attempt, and otherwise sleeps before the next attempt.
AttemptRaises ==
    /\ pc = "attempt"
    /\ attempt' = attempt + 1
    /\ \E status \in FailureStatuses :
           /\ api' = Append(api, ApiResponse(status, << >>))
           /\ IF ~retry_if(RaisedFor(status))
              THEN /\ outcome' = <<Outcome(RaisedFor(status), << >>)>>
                   /\ pc' = "done"
              ELSE IF attempt + 1 >= StopAfterAttempt
              THEN /\ outcome' = <<Outcome("RetryError", << >>)>>
                   /\ pc' = "done"
              ELSE /\ outcome' = outcome
                   /\ pc' = "wait"
    /\ UNCHANGED <<config, idx, calls, results, result, best_result, returned,
                   tiers, max_score, any_candidates, probes, engine>>

\* wait=wait_exponential(multiplier=1, min=1, max=60): the sleep ends.
Wait ==
    /\ pc = "wait"
    /\ pc' = "attempt"
    /\ UNCHANGED <<config, idx, calls, results, result, best_result, returned,
                   tiers, max_score, any_candidates, probes, engine, retry>>

NextSearch ==
    \/ AttemptReturns
    \/ AttemptRaises
    \/ Wait

SpecSearch == InitSearch /\ [][NextSearch]_vars

\* C14: every attempt of search_track but the last was answered 429, and
\* there are at most 5 attempts; the call is over exactly when an attempt
\* succeeded (its candidates are returned), when an attempt failed otherwise
\* than by 429 (SpotifyError is raised, that attempt being the last: a first
\* attempt failing so is the only attempt), or when the 5th attempt was
\* answered 429 (the call raises).
C14_RetryOnlyRateLimit ==
    /\ attempt = Len(api)
    /\ attempt <= 5
    /\ \A k \in 1..(Len(api) - 1) : api[k].status = 429
    /\ pc = "done" =>
           /\ api # << >>
           /\ outcome # << >>
           /\ LET last == api[Len(api)]
              IN  /\ last.status = 200 =>
                         outcome[1] = [kind |-> "return", tracks |-> last.items]
                  /\ last.status = 429 =>
                         /\ Len(api) = 5
                         /\ outcome[1].kind \notin {"return"}
                  /\ last.status \notin {200, 429} =>
                         outcome[1].kind = "SpotifyError"
    /\ pc # "done" =>
           /\ outcome = << >>
           /\ Len(api) < 5
           /\ \A k \in DOMAIN api : api[k].status = 429

C14_Witness ==
    /\ pc = "done"
    /\ Len(api) = 5
    /\ \A k \in DOMAIN api : api[k].status = 429
    /\ outcome[1].kind = "RetryError"

----------------------------------------------------------------------------
(* TrackNormalizer                                                         *)
(*                                                                         *)
(* A text is a sequence of characters, each a one-character string; a      *)
(* character outside ASCII is a string naming it ("E_ACUTE" is U+00C9,     *)
(* "e_acute" is U+00E9, "TM_SIGN" is U+2122); "DQUOTE" is the double       *)
(* quote and "BACKTICK" the grave accent.                                  *)

UpperToLower ==
    [c \in {"A", "B", "C", "D", "E", "F", "G", "H", "I", "J", "K", "L", "M",
            "N", "O", "P", "Q", "R", "S", "T", "U", "V", "W", "X", "Y", "Z",
            "E_ACUTE"} |->
        CASE c = "A" -> "a" [] c = "B" -> "b" [] c = "C" -> "c" [] c = "D" -> "d"
          [] c = "E" -> "e" [] c = "F" -> "f" [] c = "G" -> "g" [] c = "H" -> "h"
          [] c = "I" -> "i" [] c = "J" -> "j" [] c = "K" -> "k" [] c = "L" -> "l"
          [] c = "M" -> "m" [] c = "N" -> "n" [] c = "O" -> "o" [] c = "P" -> "p"
          [] c = "Q" -> "q" [] c = "R" -> "r" [] c = "S" -> "s" [] c = "T" -> "t"
          [] c = "U" -> "u" [] c = "V" -> "v" [] c = "W" -> "w" [] c = "X" -> "x"
          [] c = "Y" -> "y" [] c = "Z" -> "z" [] c = "E_ACUTE" -> "e_acute"]

\* text.lower()
lower(text) ==
    [i \in DOMAIN text |->
        IF text[i] \in DOMAIN UpperToLower THEN UpperToLower[text[i]] ELSE text[i]]

\* unicodedata.normalize("NFKD", c).encode("ascii", "ignore") of one character.
nfkd_ascii_char(c) ==
    CASE c = "e_acute" -> <<"e">>
      [] c = "E_ACUTE" -> <<"E">>
      [] c = "TM_SIGN" -> <<"T", "M">>
      [] OTHER -> <<c>>

RECURSIVE nfkd_ascii(_)
nfkd_ascii(text) ==
    IF text = << >> THEN << >>
    ELSE nfkd_ascii_char(Head(text)) \o nfkd_ascii(Tail(text))

IsPrefix(p, s) == Len(p) <= Len(s) /\ SubSeq(s, 1, Len(p)) = p

Drop(s, n) == SubSeq(s, n + 1, Len(s))

\* text.replace(old, new): the occurrences of old found from left to right,
\* none overlapping another.
RECURSIVE replace(_, _, _)
replace(text, old, new) ==
    IF Len(text) < Len(old) THEN text
    ELSE IF IsPrefix(old, text)
    THEN new \o replace(Drop(text, Len(old)), old, new)
    ELSE <<Head(text)>> \o replace(Tail(text), old, new)

And == <<" ", "a", "n", "d", " ">>
Versus == <<" ", "v", "e", "r", "s", "u", "s", " ">>
Featuring == <<" ", "f", "e", "a", "t", "u", "r", "i", "n", "g", " ">>
With == <<" ", "w", "i", "t", "h", " ">>

\* REPLACEMENTS, in the order of the dict.
REPLACEMENTS ==
    << <<<<" ", "&", " ">>, And>>,
       <<<<" ", "v", "s", " ">>, Versus>>,
       <<<<" ", "v", "s", ".", " ">>, Versus>>,
       <<<<" ", "f", "t", " ">>, Featuring>>,
       <<<<" ", "f", "t", ".", " ">>, Featuring>>,
       <<<<" ", "f", "e", "a", "t", " ">>, Featuring>>,
       <<<<" ", "f", "e", "a", "t", ".", " ">>, Featuring>>,
       <<<<" ", "w", "/", " ">>, With>> >>

\* for old, new in self.REPLACEMENTS.items(): text = text.replace(old.lower(), new)
RECURSIVE apply_replacements(_, _)
apply_replacements(text, k) ==
    IF k > Len(REPLACEMENTS) THEN text
    ELSE apply_replacements(replace(text, REPLACEMENTS[k][1], REPLACEMENTS[k][2]),
                            k + 1)

\* The parenthetical REMOVE_PATTERNS, lower-cased (they match ignoring case).
REMOVE_PATTERNS ==
    << <<"(", "o", "r", "i", "g", "i", "n", "a", "l", " ", "m", "i", "x", ")">>,
       <<"(", "o", "r", "i", "g", "i", "n", "a", "l", ")">>,
       <<"(", "r", "a", "d", "i", "o", " ", "e", "d", "i", "t", ")">>,
       <<"(", "e", "x", "t", "e", "n", "d", "e", "d", " ", "m", "i", "x", ")">>,
       <<"(", "e", "x", "t", "e", "n", "d", "e", "d", ")">>,
       <<"(", "c", "l", "u", "b", " ", "m", "i", "x", ")">> >>

\* The class ['"`] of REMOVE_PATTERNS.
Quotes == {"'", "DQUOTE", "BACKTICK"}

\* re.sub(pattern, "", text, flags=re.IGNORECASE) for a literal pattern.
RECURSIVE remove_literal(_, _)
remove_literal(text, pattern) ==
    IF Len(text) < Len(pattern) THEN text
    ELSE IF lower(SubSeq(text, 1, Len(pattern))) = pattern
    THEN remove_literal(Drop(text, Len(pattern)), pattern)
    ELSE <<Head(text)>> \o remove_literal(Tail(text), pattern)

NotQuote(c) == c \notin Quotes

\* for pattern in self.REMOVE_PATTERNS: text = re.sub(pattern, "", text, ...)
RECURSIVE remove_patterns(_, _)
remove_patterns(text, k) ==
    IF k > Len(REMOVE_PATTERNS) THEN SelectSeq(text, NotQuote)
    ELSE remove_patterns(remove_literal(text, REMOVE_PATTERNS[k]), k + 1)

\* The characters \s matches, of those of the model.
Whitespace == {" ", "\t"}

\* re.sub(r"\s+", " ", text)
RECURSIVE collapse_whitespace(_)
collapse_whitespace(text) ==
    IF text = << >> THEN << >>
    ELSE IF Head(text) \in Whitespace
    THEN IF Len(text) > 1 /\ text[2] \in Whitespace
         THEN collapse_whitespace(Tail(text))
         ELSE <<" ">> \o collapse_whitespace(Tail(text))
    ELSE <<Head(text)>> \o collapse_whitespace(Tail(text))

\* text.strip()
RECURSIVE strip(_)
strip(text) ==
    IF text = << >> THEN << >>
    ELSE IF Head(text) \in Whitespace THEN strip(Tail(text))
    ELSE IF text[Len(text)] \in Whitespace THEN strip(SubSeq(text, 1, Len(text) - 1))
    ELSE text

normalize(text) ==
    strip(collapse_whitespace(
        remove_patterns(apply_replacements(nfkd_ascii(lower(text)), 1), 1)))

----------------------------------------------------------------------------
(* normalize applied to a text, and again to its result                    *)

\* The longest text normalize is applied to, in pieces.
MaxPieces == 5

\* The pieces the texts are made of.
Pieces ==
    { <<"E_ACUTE">>, <<" ">>, <<"\t">>, <<"&">>, <<"'">>,
      <<"(", "O", "r", "i", "g", "i", "n", "a", "l">>,
      <<" ", "M", "i", "x", ")">> }

RECURSIVE Texts(_)
Texts(n) ==
    IF n = 0 THEN { << >> }
    ELSE LET shorter == Texts(n - 1)
         IN  shorter \cup { t \o p : t \in shorter, p \in Pieces }

InitNormalize ==
    /\ min_score = HighThreshold
    /\ include_low_confidence = FALSE
    /\ pc = "normalize"
    /\ MatcherIdle
    /\ EngineIdle
    /\ RetryIdle
    /\ probe \in Texts(MaxPieces)
    /\ probe_out = << >>

Normalize ==
    /\ pc = "normalize"
    /\ probe_out' = <<normalize(probe), normalize(normalize(probe))>>
    /\ pc' = "normalized"
    /\ UNCHANGED <<config, idx, calls, results, result, best_result, returned,
                   tiers, max_score, any_candidates, probe, engine, retry>>

NextNormalize == Normalize

SpecNormalize == InitNormalize /\ [][NextNormalize]_vars

\* C20: normalize is idempotent: for every text x, normalize(normalize(x))
\* equals normalize(x).
C20_NormalizeIdempotent ==
    pc = "normalized" => probe_out[2] = probe_out[1]

----------------------------------------------------------------------------
(* String similarity and TrackNormalizer.extract_artists                   *)

\* One row of the table of longest common subsequences of a prefix of a
\* with the prefixes of b: row[j + 1] is for the first j characters of b.
RECURSIVE LcsRow(_, _, _, _)
LcsRow(prev, c, b, row) ==
    IF Len(row) > Len(b) THEN row
    ELSE LET j == Len(row)
         IN  LcsRow(prev, c, b,
                    Append(row, IF c = b[j]
                                THEN prev[j] + 1
                                ELSE Max(prev[j + 1], row[j])))

RECURSIVE LcsFrom(_, _, _, _)
LcsFrom(a, b, i, prev) ==
    IF i > Len(a) THEN prev[Len(b) + 1]
    ELSE LcsFrom(a, b, i + 1, LcsRow(prev, a[i], b, <<0>>))

\* The length of a longest common subsequence of a and b.
Lcs(a, b) == LcsFrom(a, b, 1, [j \in 1..(Len(b) + 1) |-> 0])

\* fuzz.ratio(a, b) >= percent, fuzz.ratio being the normalized Indel
\* similarity 100 * 2 * lcs / (len(a) + len(b)), and 100 for two empty texts.
ratio_at_least(a, b, percent) ==
    IF Len(a) + Len(b) = 0 THEN percent <= 100
    ELSE 200 * Lcs(a, b) >= percent * (Len(a) + Len(b))

\* fuzz.ratio(a, b) in tenths, rounded down.
ratio(a, b) ==
    IF Len(a) + Len(b) = 0 THEN 1000
    ELSE (2000 * Lcs(a, b)) \div (Len(a) + Len(b))

\* The end of the whitespace that starts at position p of text: the first
\* position from p on that holds no whitespace (Len(text) + 1 if none).
RECURSIVE SkipWhitespace(_, _)
SkipWhitespace(text, p) ==
    IF p <= Len(text) /\ text[p] \in Whitespace THEN SkipWhitespace(text, p + 1)
    ELSE p

\* The characters of [,&+].
SeparatorChars == {",", "&", "+"}

\* The words of (?:and|vs\.?|versus|featuring|feat\.?|ft\.?|with|w/|x).
SeparatorWords ==
    { <<"a", "n", "d">>, <<"v", "s">>, <<"v", "s", ".">>,
      <<"v", "e", "r", "s", "u", "s">>,
      <<"f", "e", "a", "t", "u", "r", "i", "n", "g">>,
      <<"f", "e", "a", "t">>, <<"f", "e", "a", "t", ".">>,
      <<"f", "t">>, <<"f", "t", ".">>, <<"w", "i", "t", "h">>,
      <<"w", "/">>, <<"x">> }

\* Where a match of the separator pattern that starts at p ends (the
\* position after it), 0 if none starts at p.
SeparatorEnd(text, p) ==
    LET q == SkipWhitespace(text, p)
    IN  IF q <= Len(text) /\ text[q] \in SeparatorChars
        THEN SkipWhitespace(text, q + 1)
        ELSE IF q > p /\ \E w \in SeparatorWords :
                    /\ IsPrefix(w, lower(Drop(text, q - 1)))
                    /\ q + Len(w) <= Len(text)
                    /\ text[q + Len(w)] \in Whitespace
        THEN LET w == CHOOSE w \in SeparatorWords :
                          /\ IsPrefix(w, lower(Drop(text, q - 1)))
                          /\ q + Len(w) <= Len(text)
                          /\ text[q + Len(w)] \in Whitespace
             IN  SkipWhitespace(text, q + Len(w))
        ELSE 0

\* re.split(pattern, text): the pieces between the matches, from position
\* p on, start being where the current piece began.
RECURSIVE split(_, _, _)
split(text, start, p) ==
    IF p > Len(text) THEN <<SubSeq(text, start, Len(text))>>
    ELSE IF SeparatorEnd(text, p) # 0
    THEN <<SubSeq(text, start, p - 1)>>
         \o split(text, SeparatorEnd(text, p), SeparatorEnd(text, p))
    ELSE split(text, start, p + 1)

NotBlank(piece) == strip(piece) # << >>

\* return [a.strip() for a in artists if a.strip()]
extract_artists(artist_string) ==
    LET artists == SelectSeq(split(lower(artist_string), 1, 1), NotBlank)
    IN  [k \in DOMAIN artists |-> strip(artists[k])]

\* if best_match >= 85, in percent.
ArtistThreshold == 85

\* The score of a partial match: (matched_count / len(mdb_artists)) * 60.
PartialArtistScore == 60

\* A plausible slip: the threshold of the remix comparison used for artists.
artist_found_lenient(mdb_a, sp_artists_normalized) ==
    \E k \in DOMAIN sp_artists_normalized :
        ratio_at_least(mdb_a, sp_artists_normalized[k], PartialArtistScore)

\* best_match >= 85 after the loop over sp_artists_normalized.
artist_found(mdb_a, sp_artists_normalized) ==
    \E k \in DOMAIN sp_artists_normalized :
        ratio_at_least(mdb_a, sp_artists_normalized[k], ArtistThreshold)

\* A plausible slip: no check that an artist was extracted.
_score_artist_strict_vacuous(mdb_artist, sp_all_artists) ==
    LET mdb_artists == extract_artists(mdb_artist)
        sp_artists_normalized ==
            [k \in DOMAIN sp_all_artists |-> normalize(sp_all_artists[k])]
        matched_count ==
            Cardinality({k \in DOMAIN mdb_artists :
                            artist_found(mdb_artists[k], sp_artists_normalized)})
    IN  IF matched_count = Len(mdb_artists) THEN 1000
        ELSE IF matched_count > 0
        THEN (matched_count * PartialArtistScore * 10) \div Len(mdb_artists)
        ELSE 0

\* The artist sub-score, in tenths (a partial score rounded down).
_score_artist_strict(mdb_artist, sp_all_artists) ==
    LET mdb_artists == extract_artists(mdb_artist)
        sp_artists_normalized ==
            [k \in DOMAIN sp_all_artists |-> normalize(sp_all_artists[k])]
        matched_count ==
            Cardinality({k \in DOMAIN mdb_artists :
                            artist_found(mdb_artists[k], sp_artists_normalized)})
    IN  IF mdb_artists = << >> THEN 0
        ELSE IF matched_count = Len(mdb_artists) THEN 1000
        ELSE IF matched_count > 0
        THEN (matched_count * PartialArtistScore * 10) \div Len(mdb_artists)
        ELSE 0

----------------------------------------------------------------------------
(* TrackScorer: remix tags, title and remix sub-scores                     *)

\* The words of the remix patterns, lower-cased (they match ignoring case).
RemixKeywords ==
    { <<"r", "e", "m", "i", "x">>, <<"m", "i", "x">>, <<"e", "d", "i", "t">>,
      <<"v", "e", "r", "s", "i", "o", "n">>, <<"d", "u", "b">>,
      <<"r", "e", "w", "o", "r", "k">>,
      <<"b", "o", "o", "t", "l", "e", "g">>,
      <<"r", "e", "c", "o", "n", "s", "t", "r", "u", "c", "t", "e", "d">> }

\* A plausible slip: a keyword list without "Mix".
ContainsKeyword_without_mix(text) ==
    \E w \in RemixKeywords \ {<<"m", "i", "x">>} : \E i \in 1..Len(text) :
        IsPrefix(w, lower(Drop(text, i - 1)))

ContainsKeyword(text) ==
    \E w \in RemixKeywords : \E i \in 1..Len(text) :
        IsPrefix(w, lower(Drop(text, i - 1)))

Digits == {"0", "1", "2", "3", "4", "5", "6", "7", "8", "9"}

RECURSIVE SkipDigits(_, _)
SkipDigits(text, p) ==
    IF p <= Len(text) /\ text[p] \in Digits THEN SkipDigits(text, p + 1)
    ELSE p

\* The characters of the class that precedes Remaster in REMASTER_PATTERN,
\* as the source file holds them: the hyphen, and U+00E2 (either case),
\* U+20AC, U+201C.
RemasterDashes == {"-", "a_circumflex", "A_CIRCUMFLEX", "EURO_SIGN", "LEFT_DQUOTE"}

Remaster == <<"r", "e", "m", "a", "s", "t", "e", "r">>

\* Remaster(?:ed)? at position p: the position after it, 0 if it is not there.
RemasterWordEnd(text, p) ==
    IF ~IsPrefix(Remaster, lower(Drop(text, p - 1))) THEN 0
    ELSE IF IsPrefix(<<"e", "d">>, lower(Drop(text, p - 1 + Len(Remaster))))
    THEN p + Len(Remaster) + 2
    ELSE p + Len(Remaster)

\* Where a match of REMASTER_PATTERN that starts at p ends (the position
\* after it), 0 if none starts at p.
RemasterEnd(text, p) ==
    LET q == SkipWhitespace(text, p)
        e == IF q <= Len(text) /\ text[q] \in RemasterDashes
             THEN RemasterWordEnd(text, SkipWhitespace(text, q + 1))
             ELSE 0
        f == IF text[p] = "(" THEN RemasterWordEnd(text, p + 1) ELSE 0
        g == IF f = 0 THEN 0 ELSE SkipDigits(text, SkipWhitespace(text, f))
    IN  IF e # 0 /\ SkipWhitespace(text, SkipDigits(text, SkipWhitespace(text, e)))
                      = Len(text) + 1
        THEN Len(text) + 1
        ELSE IF g # 0 /\ g <= Len(text) /\ text[g] = ")" THEN g + 1
        ELSE 0

\* self.REMASTER_PATTERN.sub("", title), from position p on.
RECURSIVE remove_remaster(_, _)
remove_remaster(text, p) ==
    IF p > Len(text) THEN << >>
    ELSE IF RemasterEnd(text, p) # 0 THEN remove_remaster(text, RemasterEnd(text, p))
    ELSE <<text[p]>> \o remove_remaster(text, p + 1)

\* The first ")" from position p on, 0 if none.
RECURSIVE FirstClose(_, _)
FirstClose(text, p) ==
    IF p > Len(text) THEN 0
    ELSE IF text[p] = ")" THEN p
    ELSE FirstClose(text, p + 1)

\* Where a match of REMIX_PAREN_PATTERN that starts at p ends (the position
\* after its ")"), 0 if none starts at p.
ParenEnd(text, p) ==
    IF text[p] # "(" \/ FirstClose(text, p + 1) = 0 THEN 0
    ELSE IF ContainsKeyword(SubSeq(text, p + 1, FirstClose(text, p + 1) - 1))
    THEN FirstClose(text, p + 1) + 1
    ELSE 0

\* REMIX_PAREN_PATTERN.search: where the first match starts, 0 if none.
RECURSIVE FirstParen(_, _)
FirstParen(text, p) ==
    IF p > Len(text) THEN 0
    ELSE IF ParenEnd(text, p) # 0 THEN p
    ELSE FirstParen(text, p + 1)

\* self.REMIX_PAREN_PATTERN.sub("", title), from position p on.
RECURSIVE remove_paren(_, _)
remove_paren(text, p) ==
    IF p > Len(text) THEN << >>
    ELSE IF ParenEnd(text, p) # 0 THEN remove_paren(text, ParenEnd(text, p))
    ELSE <<text[p]>> \o remove_paren(text, p + 1)

\* Where group 1 of a match of REMIX_DASH_PATTERN that starts at p starts,
\* 0 if none starts at p; the match ends where the text ends.
DashGroup(text, p) ==
    LET q == SkipWhitespace(text, p)
        g == SkipWhitespace(text, q + 1)
    IN  IF /\ q > p
           /\ q <= Len(text) /\ text[q] = "-"
           /\ g > q + 1
           /\ ContainsKeyword(Drop(text, g - 1))
        THEN g
        ELSE 0

\* REMIX_DASH_PATTERN.search: where the first match starts, 0 if none.
RECURSIVE FirstDash(_, _)
FirstDash(text, p) ==
    IF p > Len(text) THEN 0
    ELSE IF DashGroup(text, p) # 0 THEN p
    ELSE FirstDash(text, p + 1)

\* The remix tag of a title, or None.
_extract_remix(title) ==
    LET t == strip(remove_remaster(title, 1))
        p == FirstParen(t, 1)
        d == FirstDash(t, 1)
    IN  IF p # 0
        THEN <<strip(lower(SubSeq(t, p + 1, ParenEnd(t, p) - 2)))>>
        ELSE IF d # 0
        THEN <<strip(lower(Drop(t, DashGroup(t, d) - 1)))>>
        ELSE << >>

\* The title without its remaster and remix parts.
_remove_remix(title) ==
    LET t == remove_paren(remove_remaster(title, 1), 1)
        d == FirstDash(t, 1)
    IN  strip(IF d # 0 THEN SubSeq(t, 1, d - 1) ELSE t)

\* if len_diff > 10
LenDiffLimit == 10

\* ratio = ratio * 0.8, in tenths.
LenDiffPenalty == 8

Abs(n) == IF n < 0 THEN -n ELSE n

\* The title sub-score, in tenths (rounded down).
_score_title_strict(mdb_title, sp_title) ==
    IF mdb_title = sp_title THEN 1000
    ELSE IF Abs(Len(mdb_title) - Len(sp_title)) > LenDiffLimit
    THEN (200 * LenDiffPenalty * Lcs(mdb_title, sp_title))
             \div (Len(mdb_title) + Len(sp_title))
    ELSE ratio(mdb_title, sp_title)

\* if score >= 75 ... elif score >= 60, in percent.
RemixSameThreshold == 75
RemixCloseThreshold == 60

\* return 70.0, in tenths.
RemixCloseScore == 700

\* max(fuzz.token_set_ratio(mdb_norm, sp_norm), fuzz.partial_ratio(mdb_norm,
\* sp_norm)) in percent: 100 for equal texts; for different texts the value
\* is rapidfuzz's, and the model takes every value next to a threshold.
TagSimilarities(mdb_norm, sp_norm) ==
    IF mdb_norm = sp_norm THEN {100}
    ELSE {0, RemixCloseThreshold - 1, RemixCloseThreshold,
          RemixSameThreshold - 1, RemixSameThreshold, 100}

\* A plausible slip: the check for a missing tag placed first.
_score_remix_missing_first(mdb_remix, sp_remix, score) ==
    IF mdb_remix = << >> \/ sp_remix = << >> THEN 0
    ELSE IF score >= RemixSameThreshold THEN 1000
    ELSE IF score >= RemixCloseThreshold THEN RemixCloseScore
    ELSE 0

\* The remix sub-score, in tenths, score being the similarity of the tags.
_score_remix(mdb_remix, sp_remix, score) ==
    IF mdb_remix = << >> /\ sp_remix = << >> THEN 1000
    ELSE IF mdb_remix = << >> \/ sp_remix = << >> THEN 0
    ELSE IF score >= RemixSameThreshold THEN 1000
    ELSE IF score >= RemixCloseThreshold THEN RemixCloseScore
    ELSE 0

\* A MixesDB track and a Spotify track, as texts.
MixTrack(artist, title) == [artist |-> artist, title |-> title]
SpotifyTrack(uri, artists, name) == [uri |-> uri, artists |-> artists, name |-> name]

\* A plausible slip: the version of the candidate not compared at all.
sub_scores_any_version(mixesdb_track, spotify_track, similarity) ==
    Cand(spotify_track.uri,
         _score_artist_strict(normalize(mixesdb_track.artist), spotify_track.artists),
         _score_title_strict(normalize(_remove_remix(mixesdb_track.title)),
                             normalize(_remove_remix(spotify_track.name))),
         1000)

\* The remix sub-score after the cap of lines 73-83: a tag on one side only
\* gives 0 whatever _score_remix returned.
capped_remix(mdb_remix, sp_remix, similarity) ==
    IF mdb_remix # << >> /\ sp_remix = << >> THEN 0
    ELSE IF mdb_remix = << >> /\ sp_remix # << >> THEN 0
    ELSE _score_remix(mdb_remix, sp_remix, similarity)

\* The three sub-scores score_match combines (lines 56-83), the remix one
\* after the cap; similarity is the similarity of the two remix tags.
sub_scores(mixesdb_track, spotify_track, similarity) ==
    Cand(spotify_track.uri,
         _score_artist_strict(normalize(mixesdb_track.artist), spotify_track.artists),
         _score_title_strict(normalize(_remove_remix(mixesdb_track.title)),
                             normalize(_remove_remix(spotify_track.name))),
         capped_remix(_extract_remix(mixesdb_track.title),
                      _extract_remix(spotify_track.name), similarity))

----------------------------------------------------------------------------
(* score_match applied to a MixesDB track and a Spotify candidate          *)

DaftPunkAndPharrell ==
    <<"D", "a", "f", "t", " ", "P", "u", "n", "k", " ", "&", " ", "P", "h",
      "a", "r", "r", "e", "l", "l">>

Avicii ==
    <<"A", "v", "i", "c", "i", "i">>

NoArtist ==
    <<>>

OnlyAmpersand ==
    <<"&">>

ThreeArtists ==
    <<"D", "a", "f", "t", " ", "P", "u", "n", "k", ",", " ", "A", "v", "i",
      "c", "i", "i", " ", "&", " ", "O", "p", "u", "s">>

DaftPunk ==
    <<"D", "a", "f", "t", " ", "P", "u", "n", "k">>

PharrellWilliams ==
    <<"P", "h", "a", "r", "r", "e", "l", "l", " ", "W", "i", "l", "l", "i",
      "a", "m", "s">>

OpusClaptoneRemix ==
    <<"O", "p", "u", "s", " ", "(", "C", "l", "a", "p", "t", "o", "n", "e",
      " ", "R", "e", "m", "i", "x", ")">>

Opus ==
    <<"O", "p", "u", "s">>

StrobeOriginalMix ==
    <<"S", "t", "r", "o", "b", "e", " ", "(", "O", "r", "i", "g", "i", "n",
      "a", "l", " ", "M", "i", "x", ")">>

Strobe ==
    <<"S", "t", "r", "o", "b", "e">>

OpusDashClaptoneRemix ==
    <<"O", "p", "u", "s", " ", "-", " ", "C", "l", "a", "p", "t", "o", "n",
      "e", " ", "R", "e", "m", "i", "x">>

OpusRemastered ==
    <<"O", "p", "u", "s", " ", "(", "R", "e", "m", "a", "s", "t", "e", "r",
      "e", "d", ")">>

OpusDashRemastered ==
    <<"O", "p", "u", "s", " ", "-", " ", "R", "e", "m", "a", "s", "t", "e",
      "r", "e", "d", " ", "2", "0", "1", "1">>

StrobeRadioEdit ==
    <<"S", "t", "r", "o", "b", "e", " ", "-", " ", "R", "a", "d", "i", "o",
      " ", "E", "d", "i", "t">>

OpusLong ==
    <<"O", "p", "u", "s", " ", "i", "n", " ", "t", "h", "e", " ", "K", "e",
      "y", " ", "o", "f", " ", "S", "t", "r", "o", "b", "e">>

SourceArtists == {DaftPunkAndPharrell, Avicii, NoArtist, OnlyAmpersand, ThreeArtists}

CandidateArtists ==
    { <<DaftPunk, PharrellWilliams>>, <<Avicii>>, << >>, <<DaftPunk, Avicii>> }

SourceTitles ==
    {OpusClaptoneRemix, Opus, StrobeOriginalMix, Strobe, OpusDashClaptoneRemix,
     OpusRemastered}

CandidateNames ==
    {Opus, Strobe, OpusClaptoneRemix, OpusDashRemastered, StrobeRadioEdit, OpusLong}

\* The similarities of two remix tags that _score_remix can see.
TagPairSimilarities(mdb_remix, sp_remix) ==
    IF mdb_remix # << >> /\ sp_remix # << >>
    THEN TagSimilarities(normalize(mdb_remix[1]), normalize(sp_remix[1]))
    ELSE {0}

Similarities(mixesdb_track, spotify_track) ==
    TagPairSimilarities(_extract_remix(mixesdb_track.title),
                        _extract_remix(spotify_track.name))

InitScore ==
    /\ min_score \in SyncMinScores
    /\ include_low_confidence \in BOOLEAN
    /\ pc = "score"
    /\ MatcherIdle
    /\ EngineIdle
    /\ RetryIdle
    /\ probe \in { <<MixTrack(a, t), SpotifyTrack("sp", as, n)>> :
                     a \in SourceArtists, t \in SourceTitles,
                     as \in CandidateArtists, n \in CandidateNames }
    /\ probe_out = << >>

\* The candidate is scored, and evaluated as the only result of a strategy.
Score ==
    /\ pc = "score"
    /\ \E similarity \in Similarities(probe[1], probe[2]) :
       \E c \in {sub_scores(probe[1], probe[2], similarity)} :
           /\ probe_out' = <<c, _extract_remix(probe[1].title),
                             _extract_remix(probe[2].name), similarity>>
           /\ result' = <<_evaluate_results(Track, <<c>>, "exact")>>
    /\ pc' = "scored"
    /\ UNCHANGED <<config, idx, calls, results, best_result, returned, tiers,
                   max_score, any_candidates, probe, engine, retry>>

NextScore == Score

SpecScore == InitScore /\ [][NextScore]_vars

----------------------------------------------------------------------------
(* Claims about the score                                                  *)

\* The titles of the model that carry a remix or version tag.
TaggedTitles ==
    {OpusClaptoneRemix, OpusDashClaptoneRemix, StrobeOriginalMix, StrobeRadioEdit}

ExactlyOneTagged == (probe[1].title \in TaggedTitles) # (probe[2].name \in TaggedTitles)

\* C15: the three sub-scores lie in 0.0 .. 100.0 (0 .. 1000 tenths), the
\* score is 0.30 * artist + 0.40 * title + 0.30 * remix, and it lies in
\* 0.00 .. 100.00 (0 .. 10000 hundredths).
C15_ScoreIsWeightedSum ==
    pc = "scored" =>
        /\ probe_out[1].artist \in 0..1000
        /\ probe_out[1].title \in 0..1000
        /\ probe_out[1].remix \in 0..1000
        /\ result[1].score = 3 * probe_out[1].artist + 4 * probe_out[1].title
                             + 3 * probe_out[1].remix
        /\ result[1].score \in 0..10000

C15_Witness ==
    /\ pc = "scored"
    /\ probe[1] = MixTrack(ThreeArtists, Strobe)
    /\ probe[2] = SpotifyTrack("sp", <<DaftPunk, Avicii>>, OpusLong)
    /\ probe_out[1] = Cand("sp", 400, 309, 1000)
    /\ result[1].score = 5436

\* Every artist extracted from the (normalized) source artist string has a
\* similarity of at least 85 with some normalized candidate artist.
EveryArtistMatches ==
    LET mdb_artists == extract_artists(normalize(probe[1].artist))
    IN  \A i \in DOMAIN mdb_artists :
            \E k \in DOMAIN probe[2].artists :
                ratio_at_least(mdb_artists[i], normalize(probe[2].artists[k]), 85)

SomeArtistExtracted == extract_artists(normalize(probe[1].artist)) # << >>

\* C16 as stated: the artist sub-score is 100 exactly when every extracted
\* artist matches, for every source artist string.
C16_Original ==
    pc = "scored" => (probe_out[1].artist = 1000 <=> EveryArtistMatches)

\* C16: the artist sub-score is 100 exactly when at least one artist is
\* extracted from the source artist string and every extracted artist has a
\* similarity of at least 85 with some candidate artist; with no extracted
\* artist it is 0.
C16_AllArtistsMatch ==
    pc = "scored" =>
        /\ probe_out[1].artist = 1000 <=> (SomeArtistExtracted /\ EveryArtistMatches)
        /\ ~SomeArtistExtracted => probe_out[1].artist = 0

C16_Witness ==
    /\ pc = "scored"
    /\ probe[1].artist = OnlyAmpersand
    /\ probe[2].artists = <<Avicii>>
    /\ EveryArtistMatches
    /\ probe_out[1].artist = 0

DaftPunkCase ==
    /\ pc = "scored"
    /\ probe[1].artist = DaftPunkAndPharrell
    /\ probe[2].artists = <<DaftPunk, PharrellWilliams>>

\* C17 as stated: for "Daft Punk & Pharrell" against ["Daft Punk", "Pharrell
\* Williams"] the artist sub-score is 100.
C17_Original == DaftPunkCase => probe_out[1].artist = 1000

\* C17: for "Daft Punk & Pharrell" against ["Daft Punk", "Pharrell
\* Williams"] the extracted artists are "daft punk" and "pharrell"; only
\* "daft punk" reaches the similarity 85 ("pharrell" against "pharrell
\* williams" has 64), so one artist of two matches and the artist sub-score
\* is 30.
C17_DaftPunkPharrell ==
    DaftPunkCase =>
        /\ extract_artists(normalize(probe[1].artist))
               = << <<"d", "a", "f", "t", " ", "p", "u", "n", "k">>,
                    <<"p", "h", "a", "r", "r", "e", "l", "l">> >>
        /\ ratio(<<"d", "a", "f", "t", " ", "p", "u", "n", "k">>,
                 normalize(DaftPunk)) = 1000
        /\ ratio(<<"p", "h", "a", "r", "r", "e", "l", "l">>,
                 normalize(PharrellWilliams)) = 640
        /\ ratio(<<"p", "h", "a", "r", "r", "e", "l", "l">>,
                 normalize(DaftPunk)) < 850
        /\ probe_out[1].artist = 300

C17_Witness ==
    /\ DaftPunkCase
    /\ probe[1].title = Opus
    /\ probe[2].name = Opus
    /\ probe_out[1] = Cand("sp", 300, 1000, 1000)
    /\ result[1].score = 7900

\* C18: when exactly one of the source title and the candidate title carries
\* a remix or version tag, the remix sub-score is 0 and the score is at most
\* 70; with min_score 90 and include_low_confidence false the candidate is
\* not accepted (the result has no matched candidate and is NO_MATCH) and the
\* result is neither EXACT nor HIGH.
C18_OneSidedTagCapsScore ==
    (pc = "scored" /\ ExactlyOneTagged) =>
        /\ probe_out[1].remix = 0
        /\ result[1].score <= 7000
        /\ (min_score = 9000 /\ ~include_low_confidence) =>
               /\ result[1].spotify_track = << >>
               /\ result[1].confidence = "NO_MATCH"
               /\ result[1].confidence \notin {"EXACT", "HIGH"}

C18_Witness ==
    /\ pc = "scored"
    /\ min_score = 9000
    /\ ~include_low_confidence
    /\ probe[1] = MixTrack(Avicii, OpusClaptoneRemix)
    /\ probe[2] = SpotifyTrack("sp", <<Avicii>>, Opus)
    /\ probe_out[1] = Cand("sp", 1000, 1000, 0)
    /\ result[1].score = 7000
    /\ result[1].confidence = "NO_MATCH"

StrobeCase ==
    /\ pc = "scored"
    /\ probe[1].title = StrobeOriginalMix
    /\ probe[2].name = Strobe

\* C19 as stated: "Strobe (Original Mix)" has no remix tag for the Scorer,
\* and against "Strobe" the remix sub-score is 100.
C19_Original ==
    StrobeCase => (probe_out[2] = << >> /\ probe_out[1].remix = 1000)

\* C19: the Scorer takes "(Original Mix)" for a remix tag, because the
\* keyword list holds "Mix": the tag of "Strobe (Original Mix)" is "original
\* mix", "Strobe" has none, and the remix sub-score is 0 (a version
\* mismatch), the score at most 70.
C19_OriginalMixIsATag ==
    StrobeCase =>
        /\ probe_out[2] = <<<<"o", "r", "i", "g", "i", "n", "a", "l", " ",
                              "m", "i", "x">>>>
        /\ probe_out[3] = << >>
        /\ probe_out[1].remix = 0
        /\ result[1].score <= 7000

C19_Witness ==
    /\ StrobeCase
    /\ probe[1].artist = Avicii
    /\ probe[2].artists = <<Avicii>>
    /\ probe_out[1] = Cand("sp", 1000, 1000, 0)
    /\ result[1].score = 7000

----------------------------------------------------------------------------
(* TrackNormalizer.normalize_for_search, extract_remix_info and the        *)
(* title_only strategy                                                     *)

\* The first "]" from position p on, 0 if none.
RECURSIVE FirstBracketClose(_, _)
FirstBracketClose(text, p) ==
    IF p > Len(text) THEN 0
    ELSE IF text[p] = "]" THEN p
    ELSE FirstBracketClose(text, p + 1)

\* Where a match of \[[^\]]+\] that starts at p ends (the position after
\* its "]"), 0 if none starts at p.
BracketEnd(text, p) ==
    IF text[p] # "[" \/ FirstBracketClose(text, p + 1) = 0 THEN 0
    ELSE IF FirstBracketClose(text, p + 1) = p + 1 THEN 0
    ELSE FirstBracketClose(text, p + 1) + 1

\* re.sub(r"\[[^\]]+\]", "", text), from position p on.
RECURSIVE remove_brackets(_, _)
remove_brackets(text, p) ==
    IF p > Len(text) THEN << >>
    ELSE IF BracketEnd(text, p) # 0 THEN remove_brackets(text, BracketEnd(text, p))
    ELSE <<text[p]>> \o remove_brackets(text, p + 1)

\* The words of TrackNormalizer.REMIX_PATTERN, lower-cased.
NormalizerKeywords ==
    { <<"r", "e", "m", "i", "x">>, <<"m", "i", "x">>, <<"e", "d", "i", "t">>,
      <<"v", "e", "r", "s", "i", "o", "n">>, <<"d", "u", "b">>,
      <<"r", "e", "w", "o", "r", "k">>,
      <<"b", "o", "o", "t", "l", "e", "g">> }

ContainsNormalizerKeyword(text) ==
    \E w \in NormalizerKeywords : \E i \in 1..Len(text) :
        IsPrefix(w, lower(Drop(text, i - 1)))

\* Where a match of TrackNormalizer.REMIX_PATTERN that starts at p ends (the
\* position after its ")"), 0 if none starts at p.
RemixPatternEnd(text, p) ==
    IF text[p] # "(" \/ FirstClose(text, p + 1) = 0 THEN 0
    ELSE IF ContainsNormalizerKeyword(SubSeq(text, p + 1, FirstClose(text, p + 1) - 1))
    THEN FirstClose(text, p + 1) + 1
    ELSE 0

\* self.REMIX_PATTERN.search(title): where the first match starts, 0 if none.
RECURSIVE RemixPatternSearch(_, _)
RemixPatternSearch(text, p) ==
    IF p > Len(text) THEN 0
    ELSE IF RemixPatternEnd(text, p) # 0 THEN p
    ELSE RemixPatternSearch(text, p + 1)

\* self.REMIX_PATTERN.sub("", text), from position p on.
RECURSIVE remove_remix_pattern(_, _)
remove_remix_pattern(text, p) ==
    IF p > Len(text) THEN << >>
    ELSE IF RemixPatternEnd(text, p) # 0
    THEN remove_remix_pattern(text, RemixPatternEnd(text, p))
    ELSE <<text[p]>> \o remove_remix_pattern(text, p + 1)

\* The characters \w matches, of those of the model.
WordChars ==
    {"a", "b", "c", "d", "e", "f", "g", "h", "i", "j", "k", "l", "m", "n", "o",
     "p", "q", "r", "s", "t", "u", "v", "w", "x", "y", "z", "_", "e_acute"}
    \cup DOMAIN UpperToLower \cup Digits

\* re.sub(r"[^\w\s]", " ", text)
blank_special(text) ==
    [k \in DOMAIN text |->
        IF text[k] \in WordChars \cup Whitespace THEN text[k] ELSE " "]

normalize_for_search(text) ==
    strip(collapse_whitespace(blank_special(
        remove_remix_pattern(remove_brackets(normalize(text), 1), 1))))

\* The clean_title of extract_remix_info(title).
clean_title(title) ==
    IF RemixPatternSearch(title, 1) # 0 THEN strip(remove_remix_pattern(title, 1))
    ELSE title

\* The remix_info of extract_remix_info(title), or None.
remix_info(title) ==
    IF RemixPatternSearch(title, 1) # 0
    THEN <<SubSeq(title, RemixPatternSearch(title, 1) + 1,
                  RemixPatternEnd(title, RemixPatternSearch(title, 1)) - 2)>>
    ELSE << >>

LevelsRadioEdit ==
    <<"L", "e", "v", "e", "l", "s", " ", "(", "R", "a", "d", "i", "o", " ",
      "E", "d", "i", "t", ")">>

Levels ==
    <<"L", "e", "v", "e", "l", "s">>

levels_lower ==
    <<"l", "e", "v", "e", "l", "s">>

OpusUltraClaptoneRemix ==
    <<"O", "p", "u", "s", " ", "[", "U", "l", "t", "r", "a", "]", " ", "(",
      "C", "l", "a", "p", "t", "o", "n", "e", " ", "R", "e", "m", "i", "x",
      ")">>

DontStop ==
    <<"D", "o", "n", "'", "t", " ", "S", "t", "o", "p", "!">>

strobe_live ==
    <<"s", "t", "r", "o", "b", "e", " ", "(", "l", "i", "v", "e", ")">>

OpusClaptoneReconstructed ==
    <<"O", "p", "u", "s", " ", "(", "C", "l", "a", "p", "t", "o", "n", "e",
      " ", "R", "e", "c", "o", "n", "s", "t", "r", "u", "c", "t", "e", "d",
      ")">>

\* The longest candidate list the title search returns in the model.
MaxWide == 12

WideUris ==
    <<"w1", "w2", "w3", "w4", "w5", "w6", "w7", "w8", "w9", "w10", "w11",
      "w12", "w13", "w14">>

\* The catalogue of the title search in the order the collaborator ranks
\* it, with sub-scores that give equal and unequal aggregate scores.
WideCatalog ==
    [i \in 1..MaxWide |->
        Cand(WideUris[i], 1000 * (i % 2), 125 * ((i * 5) % 7),
             IF i % 3 = 0 THEN 0 ELSE 1000)]

\* What the title search can return: consecutive tracks of the catalogue.
WideResponses ==
    { SubSeq(WideCatalog, w[1], w[1] + w[2] - 1) :
        w \in { v \in (1..MaxWide) \X (0..Min(TitleOnlyLimit, MaxWide)) :
                   v[1] + v[2] - 1 <= MaxWide } }

\* query = f'track:"{clean_title}"'; self.spotify.search_track(query, limit=20)
title_only_query(title) ==
    [field |-> "track", text |-> clean_title(title), limit |-> TitleOnlyLimit]

TitleOnlyTitles ==
    {LevelsRadioEdit, Levels, levels_lower, OpusUltraClaptoneRemix, DontStop,
     strobe_live, OpusClaptoneReconstructed}

InitTitleOnly ==
    /\ min_score \in MinScores
    /\ include_low_confidence \in BOOLEAN
    /\ pc = "title_only"
    /\ MatcherIdle
    /\ EngineIdle
    /\ RetryIdle
    /\ probe \in {<<t>> : t \in TitleOnlyTitles}
    /\ probe_out = << >>

\* _title_only_search up to its search call.
TitleOnlyCall ==
    /\ pc = "title_only"
    /\ calls' = Append(calls, title_only_query(probe[1]))
    /\ pc' = "searching"
    /\ UNCHANGED <<config, idx, results, result, best_result, returned, tiers,
                   max_score, any_candidates, probes, engine, retry>>

\* The search returns; the candidates are re-ranked, cut and evaluated.
TitleOnlyReturn ==
    /\ pc = "searching"
    /\ \E rs \in WideResponses :
           /\ results' = rs
           /\ probe_out' = <<title_only_kept(Track, rs)>>
           /\ result' = <<StrategyResult(Track, "title_only", rs)>>
    /\ pc' = "evaluated"
    /\ UNCHANGED <<config, idx, calls, best_result, returned, tiers,
                   max_score, any_candidates, probe, engine, retry>>

\* The search raises: nothing in _title_only_search catches it.
TitleOnlyRaises ==
    /\ pc = "searching"
    /\ pc' = "raised"
    /\ UNCHANGED <<config, idx, calls, results, result, best_result, returned,
                   tiers, max_score, any_candidates, probes, engine, retry>>

NextTitleOnly ==
    \/ TitleOnlyCall
    \/ TitleOnlyReturn
    \/ TitleOnlyRaises

SpecTitleOnly == InitTitleOnly /\ [][NextTitleOnly]_vars

\* The re-rank of title_only: the candidates passed on are candidates of the
\* response, at most 10, in descending order of score, and no candidate left
\* out scores more than one passed on.
TopTenPassedOn ==
    pc = "evaluated" =>
        /\ Range(probe_out[1]) \subseteq Range(results)
        /\ Len(probe_out[1]) = Min(Len(results), 10)
        /\ Cardinality(Range(probe_out[1])) = Len(probe_out[1])
        /\ \A i \in 1..(Len(probe_out[1]) - 1) :
               ScoreOf(probe_out[1][i]) >= ScoreOf(probe_out[1][i + 1])
        /\ \A c \in Range(results) \ Range(probe_out[1]) :
               \A d \in Range(probe_out[1]) : ScoreOf(c) <= ScoreOf(d)
        /\ result[1] = _evaluate_results(Track, probe_out[1], "title_only")

\* C21: title_only issues one title-field query with limit 20 whose text is
\* the source title without its remix/version parenthetical and then
\* search-normalized, and passes only the 10 highest-scoring candidates of
\* the response to the evaluation.
C21_TitleOnlyQuery ==
    /\ pc \in {"searching", "evaluated", "raised"} =>
           /\ Len(calls) = 1
           /\ calls[1].field = "track"
           /\ calls[1].limit = 20
           /\ calls[1].text = normalize_for_search(clean_title(probe[1]))
    /\ TopTenPassedOn

\* The part of C21 the code keeps: one title-field query with limit 20 whose
\* text is the source title without its parenthetical, as written.
TitleOnlyQueryAsWritten ==
    pc \in {"searching", "evaluated", "raised"} =>
        /\ Len(calls) = 1
        /\ calls[1].field = "track"
        /\ calls[1].limit = 20
        /\ calls[1].text = clean_title(probe[1])

----------------------------------------------------------------------------
(* MatcherConfig, load_config and the --min-score option of the CLI        *)

\* min_score: float = Field(default=90.0, ge=0, le=100), in hundredths.
DefaultMinScore == 9000
MinScoreLowest == 0
MinScoreHighest == 10000

\* The values of MATCHER_MIN_SCORE in the environment (None: not set) and of
\* the --min-score option (90.0 when it is not given), in hundredths.
EnvMinScores == {<< >>, <<-100>>, <<0>>, <<8000>>, <<10000>>, <<10100>>}
OptionMinScores == {-100, 0, 8000, DefaultMinScore, 10000, 10100}

\* Who builds the matcher: the sync command of the CLI, or a caller of the
\* library that constructs MatcherConfig itself.
Entries == {"cli", "library"}

\* The Field constraints ge=0, le=100 that MatcherConfig() validates.
field_valid(value) == value >= MinScoreLowest /\ value <= MinScoreHighest

InitConfig ==
    /\ min_score = "unset"
    /\ include_low_confidence \in BOOLEAN
    /\ pc = "load"
    /\ MatcherIdle
    /\ EngineIdle
    /\ RetryIdle
    /\ probe \in {<<env, entry, option>> :
                    env \in EnvMinScores, entry \in Entries,
                    option \in OptionMinScores}
    /\ probe_out = << >>

\* MatcherConfig(): the field from the environment or its default, validated.
LoadConfig ==
    /\ pc = "load"
    /\ IF probe[1] = << >> THEN TRUE ELSE field_valid(probe[1][1])
    /\ min_score' = IF probe[1] = << >> THEN DefaultMinScore ELSE probe[1][1]
    /\ pc' = IF probe[2] = "cli" THEN "option" ELSE "ready"
    /\ UNCHANGED <<include_low_confidence, idx, calls, results, result,
                   best_result, returned, tiers, max_score, any_candidates,
                   probes, engine, retry>>

\* MatcherConfig() raises ValidationError: no configuration, no matcher.
LoadConfigFails ==
    /\ pc = "load"
    /\ IF probe[1] = << >> THEN FALSE ELSE ~field_valid(probe[1][1])
    /\ pc' = "error"
    /\ UNCHANGED <<config, idx, calls, results, result, best_result, returned,
                   tiers, max_score, any_candidates, probes, engine, retry>>

\* config.matcher.min_score = min_score: a plain attribute assignment.
ApplyMinScoreOption ==
    /\ pc = "option"
    /\ min_score' = probe[3]
    /\ pc' = "ready"
    /\ UNCHANGED <<include_low_confidence, idx, calls, results, result,
                   best_result, returned, tiers, max_score, any_candidates,
                   probes, engine, retry>>

\* The matcher built from the configuration evaluates a candidate list.
EvaluateCandidates ==
    /\ pc = "ready"
    /\ \E rs \in Responses(ExactLimit) :
           /\ results' = rs
           /\ result' = <<_evaluate_results(Track, rs, "exact")>>
    /\ pc' = "evaluated"
    /\ UNCHANGED <<config, idx, calls, best_result, returned, tiers,
                   max_score, any_candidates, probes, engine, retry>>

NextConfig ==
    \/ LoadConfig
    \/ LoadConfigFails
    \/ ApplyMinScoreOption
    \/ EvaluateCandidates

SpecConfig == InitConfig /\ [][NextConfig]_vars

\* C22: whenever the matcher evaluates candidates, the configured minimum
\* acceptable score lies in 0 .. 100 (0 .. 10000 hundredths), for a
\* MatcherConfig from defaults or environment and after the CLI has applied
\* --min-score.
C22_MinScoreInRange ==
    pc = "evaluated" => min_score \in 0..10000

\* The part of C22 the code keeps: without the CLI's assignment the minimum
\* score is in range, and it is 90 when the environment does not set it.
MinScoreInRangeWithoutOption ==
    (pc \in {"ready", "evaluated"} /\ probe[2] = "library") =>
        /\ min_score \in 0..10000
        /\ probe[1] = << >> => min_score = 9000

----------------------------------------------------------------------------
(* find_match end to end: the candidates of the searches scored by         *)
(* score_match on their texts                                              *)

AviciiUpper ==
    <<"A", "V", "I", "C", "I", "I">>

HotClubMix ==
    <<"H", "o", "t", " ", "(", "C", "l", "u", "b", " ", "M", "i", "x", ")">>

\* The source tracks of the end-to-end runs.
EndSources ==
    { MixTrack(Avicii, Levels), MixTrack(AviciiUpper, levels_lower),
      MixTrack(Avicii, LevelsRadioEdit), MixTrack(DaftPunkAndPharrell, Levels),
      MixTrack(NoArtist, Levels) }

\* The Spotify tracks the searches can return.
TextCatalog ==
    << SpotifyTrack("levels", <<Avicii>>, Levels),
       SpotifyTrack("levels_radio_edit", <<Avicii>>, LevelsRadioEdit),
       SpotifyTrack("strobe", <<DaftPunk>>, StrobeRadioEdit),
       SpotifyTrack("levels_cover", <<DaftPunk, Avicii>>, Levels),
       SpotifyTrack("hot_club_mix", <<DaftPunk>>, HotClubMix) >>

\* The similarity _score_remix sees for a pair of tracks when rapidfuzz's
\* value for unequal tags is choice.
similarity_of(mixesdb_track, spotify_track, choice) ==
    IF choice \in Similarities(mixesdb_track, spotify_track) THEN choice
    ELSE CHOOSE s \in Similarities(mixesdb_track, spotify_track) : TRUE

\* What one search call does: it raises, or returns tracks of the catalogue
\* (their positions in TextCatalog).
EndOutcomes ==
    { [raises |-> TRUE, rs |-> << >>] } \cup
    { [raises |-> FALSE, rs |-> rs] :
        rs \in { << >>, <<1>>, <<2>>, <<5>>, <<3, 1>>, <<4, 3, 2>>, <<5, 3>> } }

EndScripts == [1..Len(strategies) -> EndOutcomes]

\* The script with the tracks replaced by their scored candidates.
scored_script(script, scored) ==
    [k \in DOMAIN script |->
        [raises |-> script[k].raises,
         rs |-> [j \in DOMAIN script[k].rs |-> scored[script[k].rs[j]]]]]

InitEndToEnd ==
    /\ min_score \in MinScores
    /\ include_low_confidence \in BOOLEAN
    /\ pc = "score"
    /\ MatcherIdle
    /\ EngineIdle
    /\ RetryIdle
    /\ probe \in {<<s>> : s \in EndSources}
    /\ probe_out = << >>

\* score_match of the source track against each track of the catalogue.
ScoreCatalog ==
    /\ pc = "score"
    /\ \E choice \in TagSimilarities(<<"a">>, <<"b">>) :
           probe_out' =
               [k \in DOMAIN TextCatalog |->
                   sub_scores(probe[1], TextCatalog[k],
                              similarity_of(probe[1], TextCatalog[k], choice))]
    /\ pc' = "call"
    /\ UNCHANGED <<config, idx, calls, results, result, best_result, returned,
                   tiers, max_score, any_candidates, probe, engine, retry>>

\* find_match(track) returns, its searches doing what the script says.
FindMatchReturns ==
    /\ pc = "call"
    /\ \E script \in EndScripts :
       \E o \in {find_match(Track, scored_script(script, probe_out))} :
           /\ ~o.raised
           /\ returned' = o.result
           /\ calls' = [k \in 1..o.searched |-> script[k]]
    /\ pc' = "returned"
    /\ UNCHANGED <<config, idx, results, result, best_result, tiers, max_score,
                   any_candidates, probes, engine, retry>>

\* find_match(track) lets the error of a search through.
FindMatchRaises ==
    /\ pc = "call"
    /\ \E script \in EndScripts :
       \E o \in {find_match(Track, scored_script(script, probe_out))} :
           /\ o.raised
           /\ calls' = [k \in 1..o.searched |-> script[k]]
    /\ pc' = "raised"
    /\ UNCHANGED <<config, idx, results, result, best_result, returned, tiers,
                   max_score, any_candidates, probes, engine, retry>>

NextEndToEnd ==
    \/ ScoreCatalog
    \/ FindMatchReturns
    \/ FindMatchRaises

SpecEndToEnd == InitEndToEnd /\ [][NextEndToEnd]_vars


\* The tracks of the catalogue (their uris) whose artist list matches every
\* artist of the source track, whose title equals the source title after
\* normalization, neither title carrying a remix or version tag; the source
\* track has an artist.
PerfectUris(source) ==
    IF source \in {MixTrack(Avicii, Levels), MixTrack(AviciiUpper, levels_lower)}
    THEN {"levels", "levels_cover"}
    ELSE { }

\* The same when a source track without an artist counts as one whose every
\* artist is matched.
PerfectUrisAsStated(source) ==
    IF source = MixTrack(NoArtist, Levels) THEN {"levels", "levels_cover"}
    ELSE PerfectUris(source)

\* A search that find_match made returned a track whose uri is in uris.
SomeSearchReturned(uris) ==
    \E k \in DOMAIN calls : \E j \in DOMAIN calls[k].rs :
        TextCatalog[calls[k].rs[j]].uri \in uris

\* C23 as stated: a candidate that matches every source artist, with the
\* same normalized title and no tag on either side, scores 100, and
\* find_match returns a matched EXACT or HIGH result when a strategy
\* returned it, also for a source track without an artist.
C23_Original ==
    /\ pc # "score" =>
           \A k \in DOMAIN TextCatalog :
               TextCatalog[k].uri \in PerfectUrisAsStated(probe[1]) =>
                   ScoreOf(probe_out[k]) = 10000
    /\ (pc = "returned" /\ SomeSearchReturned(PerfectUrisAsStated(probe[1]))) =>
           /\ returned[1].spotify_track # << >>
           /\ returned[1].confidence \in HighTiers

\* C23: for a source track with at least one artist, a candidate whose
\* artist list matches every source artist, whose title equals the source
\* title after normalization and where neither title carries a tag scores
\* 100 (sub-scores 100, 100, 100), and when a search of find_match returned
\* it, find_match returns a matched result with tier EXACT or HIGH, for
\* min_score 0, 90 and 100 and either value of include_low_confidence.
C23_PerfectCandidateMatches ==
    /\ pc # "score" =>
           \A k \in DOMAIN TextCatalog :
               TextCatalog[k].uri \in PerfectUris(probe[1]) =>
                   /\ probe_out[k].artist = 1000
                   /\ probe_out[k].title = 1000
                   /\ probe_out[k].remix = 1000
                   /\ ScoreOf(probe_out[k]) = 10000
    /\ (pc = "returned" /\ SomeSearchReturned(PerfectUris(probe[1]))) =>
           /\ returned[1].spotify_track # << >>
           /\ returned[1].confidence \in HighTiers
           /\ returned[1].score >= 9000

C23_Witness ==
    /\ pc = "returned"
    /\ probe[1] = MixTrack(AviciiUpper, levels_lower)
    /\ min_score = 10000
    /\ ~include_low_confidence
    /\ Len(calls) = 3
    /\ calls[1].rs = <<5, 3>>
    /\ calls[2].rs = << >>
    /\ calls[3].rs = <<3, 1>>
    /\ returned[1].spotify_track # << >>
    /\ returned[1].spotify_track[1].uri = "levels"
    /\ returned[1].confidence = "EXACT"
    /\ returned[1].score = 10000
    /\ returned[1].search_strategy = "artist_title"

----------------------------------------------------------------------------
(* Claims about sync: dry run, playlist entries, create_playlist           *)

\* A result with a matched candidate, in the terms of MatchResult.matched.
IsMatch(r) == r.spotify_track # << >> /\ r.confidence # "NO_MATCH"

IsNoMatch(r) == ~IsMatch(r)

\* sync returned after the mix was fetched and match_tracks returned.
SyncReturnedAfterMatching ==
    /\ caller = "sync"
    /\ epc = "done"
    /\ sync_result # << >>
    /\ sync_result[1].error # "Failed to fetch mix"

\* C24: with dry_run=True sync performs no playlist operation at all, and
\* the SyncResult it returns after the matching run has playlist None, error
\* None and the matched and unmatched lists of that run.
C24_DryRunNoPlaylistOps ==
    (caller = "sync" /\ dry_run) =>
        /\ ops = << >>
        /\ SyncReturnedAfterMatching =>
               /\ sync_result[1].playlist = << >>
               /\ sync_result[1].error = ""
               /\ sync_result[1].matched_tracks = SelectSeq(match_results, IsMatch)
               /\ sync_result[1].unmatched_tracks = SelectSeq(match_results, IsNoMatch)
               /\ Len(match_results) = Len(mix.tracks)

C24_Witness ==
    /\ SyncReturnedAfterMatching
    /\ dry_run
    /\ Len(mix.tracks) = 2
    /\ Len(sync_result[1].matched_tracks) = 1
    /\ Len(sync_result[1].unmatched_tracks) = 1
    /\ sync_result[1].matched_tracks[1].mixesdb_track = "track_2"
    /\ sync_result[1].playlist = << >>
    /\ ops = << >>

----------------------------------------------------------------------------
(* Claims about the result find_match returns                              *)

\* The highest score among the candidates the k-th search returned.
TopOfSearch(k) ==
    CHOOSE s \in {ScoreOf(probe_out[calls[k].rs[j]]) : j \in DOMAIN calls[k].rs} :
        \A j \in DOMAIN calls[k].rs : ScoreOf(probe_out[calls[k].rs[j]]) <= s

\* The k-th strategy accepted a candidate: its search returned candidates and
\* the best one is not below the threshold, or low confidence is included.
Accepted(k) ==
    /\ ~calls[k].raises
    /\ calls[k].rs # << >>
    /\ include_low_confidence \/ TopOfSearch(k) >= min_score

\* C25 as stated: when a strategy accepted a candidate, whatever its score,
\* the result find_match returns is a matched one.
C25_Original ==
    (pc = "returned" /\ \E k \in DOMAIN calls : Accepted(k)) =>
        IsMatch(returned[1])

\* C25: when a strategy accepted a candidate that scores more than 0, the
\* result find_match returns is a matched one; when find_match returns a
\* NO_MATCH result although a strategy accepted a candidate, every accepted
\* candidate scores 0, an earlier strategy got no candidates, and the result
\* is that strategy's placeholder with score 0.
C25_AcceptedAboveZeroIsReturned ==
    pc = "returned" =>
        /\ (\E k \in DOMAIN calls : Accepted(k) /\ TopOfSearch(k) > 0) =>
               IsMatch(returned[1])
        /\ ((\E k \in DOMAIN calls : Accepted(k)) /\ ~IsMatch(returned[1])) =>
               /\ returned[1].score = 0
               /\ returned[1].alternatives = << >>
               /\ \A k \in DOMAIN calls : Accepted(k) => TopOfSearch(k) = 0
               /\ \E j \in DOMAIN calls :
                      /\ calls[j].rs = << >>
                      /\ returned[1].search_strategy = CascadeOrder[j]
                      /\ \A k \in DOMAIN calls : Accepted(k) => j < k

C25_Witness ==
    /\ pc = "returned"
    /\ min_score = 0
    /\ ~include_low_confidence
    /\ probe[1] = MixTrack(DaftPunkAndPharrell, Levels)
    /\ Len(calls) = 4
    /\ calls[1].rs = << >>
    /\ calls[2].rs = <<5>>
    /\ calls[3].rs = <<4, 3, 2>>
    /\ calls[4].rs = <<5, 3>>
    /\ Accepted(2)
    /\ TopOfSearch(2) = 900
    /\ IsMatch(returned[1])
    /\ returned[1].search_strategy = "artist_title"
    /\ returned[1].score = 7900


\* C26: under the default configuration (min_score 90, no low confidence)
\* every result find_match returns is either a matched result with tier
\* EXACT or HIGH and score >= 90, or a NO_MATCH result without a matched
\* candidate; so is every strategy's result and the remembered best one.
C26_DefaultConfigResults ==
    (min_score = 9000 /\ ~include_low_confidence) =>
        \A r \in Produced :
            \/ /\ r.spotify_track # << >>
               /\ r.confidence \in HighTiers
               /\ r.score >= 9000
            \/ /\ r.spotify_track = << >>
               /\ r.confidence = "NO_MATCH"

C26_Witness ==
    /\ pc = "returned"
    /\ min_score = 9000
    /\ ~include_low_confidence
    /\ Len(calls) = 4
    /\ tiers = <<"NO_MATCH", "NO_MATCH", "NO_MATCH", "NO_MATCH">>
    /\ returned[1].confidence = "NO_MATCH"
    /\ returned[1].score = 8200
    /\ returned[1].alternatives # << >>

\* C27: the search_strategy of every result find_match returns is one of
\* exact, normalized, artist_title, title_only, never "none"; when all four
\* strategies got no candidates it is "exact".
C27_StrategyNameOfResult ==
    pc = "returned" =>
        /\ returned[1].search_strategy \in
               {"exact", "normalized", "artist_title", "title_only"}
        /\ returned[1].search_strategy # "none"
        /\ (Len(calls) = 4 /\ ~any_candidates /\ Len(tiers) = 4) =>
               returned[1].search_strategy = "exact"

C27_Witness ==
    /\ pc = "returned"
    /\ Len(calls) = 4
    /\ Len(tiers) = 4
    /\ ~any_candidates
    /\ returned[1].search_strategy = "exact"
    /\ returned[1].confidence = "NO_MATCH"


\* The uris of the playlist_add_items calls among os, concatenated.
RECURSIVE AddedUris(_)
AddedUris(os) ==
    IF os = << >> THEN << >>
    ELSE (IF Head(os).op = "playlist_add_items" THEN Head(os).uris ELSE << >>)
         \o AddedUris(Tail(os))

\* The uris of the matched candidates of rs, in the order of rs.
UrisOf(rs) == [k \in DOMAIN rs |-> rs[k].spotify_track[1].uri]

\* s is t with some elements left out.
RECURSIVE IsSubsequence(_, _)
IsSubsequence(s, t) ==
    IF s = << >> THEN TRUE
    ELSE IF t = << >> THEN FALSE
    ELSE IF Head(s) = Head(t) THEN IsSubsequence(Tail(s), Tail(t))
    ELSE IsSubsequence(s, Tail(t))

\* sync returned after match_tracks, not in a dry run.
SyncDone == SyncReturnedAfterMatching /\ ~dry_run

\* C28: in a non-dry-run sync the matched and unmatched lists partition the
\* match results, source order kept; every add call carries 1 to 100 uris;
\* when the playlist was built the uris added, concatenated across the add
\* calls, are the uris of the matched results in source order, one each
\* (when a client call failed, a prefix of them); when no track matched no
\* playlist operation is performed and playlist is None.  A direct call of
\* add_tracks_to_playlist adds its uris in order in batches of at most 100.
C28_PlaylistEntries ==
    /\ \A k \in DOMAIN ops :
           ops[k].op = "playlist_add_items" => Len(ops[k].uris) \in 1..100
    /\ SyncDone =>
           /\ sync_result[1].matched_tracks = SelectSeq(match_results, IsMatch)
           /\ sync_result[1].unmatched_tracks = SelectSeq(match_results, IsNoMatch)
           /\ Len(sync_result[1].matched_tracks)
                  + Len(sync_result[1].unmatched_tracks) = Len(mix.tracks)
           /\ IsSubsequence(sync_result[1].matched_tracks, match_results)
           /\ IsSubsequence(sync_result[1].unmatched_tracks, match_results)
           /\ \A k \in DOMAIN match_results :
                  match_results[k].mixesdb_track = mix.tracks[k]
           /\ sync_result[1].error = "" =>
                  AddedUris(ops) = UrisOf(sync_result[1].matched_tracks)
           /\ sync_result[1].error # "" =>
                  /\ Len(AddedUris(ops)) <= Len(sync_result[1].matched_tracks)
                  /\ AddedUris(ops) =
                         SubSeq(UrisOf(sync_result[1].matched_tracks), 1,
                                Len(AddedUris(ops)))
           /\ sync_result[1].matched_tracks = << >> =>
                  /\ ops = << >>
                  /\ sync_result[1].playlist = << >>
    /\ (caller = "add_tracks_to_playlist" /\ epc = "done") =>
           /\ AddedUris(ops) = probe[1]
           /\ Len(ops) = (Len(probe[1]) + 99) \div 100

C28_Witness ==
    /\ SyncDone
    /\ sync_result[1].error = ""
    /\ include_low_confidence
    /\ Len(mix.tracks) = 2
    /\ Len(sync_result[1].matched_tracks) = 2
    /\ AddedUris(ops) = <<"sp1", "sp6">>
    /\ sync_result[1].playlist = <<"existing">>

\* A direct call of add_tracks_to_playlist with 201 uris made three calls.
AddedInThreeBatches ==
    /\ caller = "add_tracks_to_playlist"
    /\ epc = "done"
    /\ Len(probe[1]) = 201
    /\ Len(ops) = 3
    /\ Len(ops[3].uris) = 1

\* A find_existing_playlist call returned a playlist.
FoundExisting ==
    \E k \in DOMAIN ops :
        ops[k].op = "find_existing_playlist" /\ ops[k].playlist = "existing"

\* The positions in ops of the calls of an operation.
CallsOf(name) == {k \in DOMAIN ops : ops[k].op = name}

\* C29: in create_playlist, when update_existing is enabled and a playlist
\* of the target name exists, no playlist is created, the existing one is
\* cleared exactly once, before any track is added, and tracks are added
\* only to it; otherwise exactly one playlist is created, nothing is
\* cleared, and tracks are added only to the new playlist, after its
\* creation.  (If a client call fails, the calls made so far are a prefix of
\* these.)
C29_UpdateOrCreate ==
    caller = "sync" =>
        /\ Cardinality(CallsOf("clear_playlist")) <= 1
        /\ Cardinality(CallsOf("create_playlist")) <= 1
        /\ CallsOf("find_existing_playlist") # { } => update_existing
        /\ (update_existing /\ FoundExisting) =>
               /\ CallsOf("create_playlist") = { }
               /\ \A k \in CallsOf("playlist_add_items") :
                      /\ ops[k].playlist = "existing"
                      /\ \E c \in CallsOf("clear_playlist") : c < k
        /\ ~(update_existing /\ FoundExisting) =>
               /\ CallsOf("clear_playlist") = { }
               /\ \A k \in CallsOf("playlist_add_items") :
                      /\ ops[k].playlist = "new"
                      /\ \E c \in CallsOf("create_playlist") : c < k
        /\ (SyncDone /\ sync_result[1].error = "" /\ sync_result[1].playlist # << >>) =>
               IF update_existing /\ FoundExisting
               THEN /\ Cardinality(CallsOf("clear_playlist")) = 1
                    /\ sync_result[1].playlist = <<"existing">>
               ELSE /\ Cardinality(CallsOf("create_playlist")) = 1
                    /\ sync_result[1].playlist = <<"new">>

C29_Witness ==
    /\ SyncDone
    /\ sync_result[1].error = ""
    /\ update_existing
    /\ FoundExisting
    /\ Len(ops) = 3
    /\ ops[1].op = "find_existing_playlist"
    /\ ops[2].op = "clear_playlist"
    /\ ops[3].op = "playlist_add_items"
    /\ ops[3].playlist = "existing"
    /\ Len(ops[3].uris) = 2

====
